---- MODULE Spec2Model ----
(***************************************************************************)
(* A model of muilib's mouse-event router (src/src/event_router.rs) and    *)
(* of the geometry it uses (src/src/bounds.rs).                            *)
(*                                                                         *)
(* Option<T> is modelled as a sequence of length at most one: None is <<>> *)
(* and Some(x) is <<x>>.  Vec indices are 0-based as in the source; the    *)
(* element with index i of a Vec is element i + 1 of the sequence.         *)
(* f32 coordinates are fixed-point numbers counted in 1/Den logical units, *)
(* which is exact for the scale factors in Scales.                         *)
(***************************************************************************)
EXTENDS Integers, Sequences, FiniteSets, TLC

\* ------------------------------------------------------------------ bounds

\* How many listeners are registered in one run.
MaxListeners == 1

\* How many listeners are registered in one run of SpecHandles.
MaxRegistered == 2
\* How many ListenerHandles of one index are alive at a time.
MaxClones == 2
\* How many subviews a stack or a z-stack has at most.
MaxSubviews == 2

\* ------------------------------------------------------- program constants

\* Length of the button_states arrays.
NumButtons == 5
\* Fixed-point denominator of a logical coordinate.
Den == 2

None == <<>>
Some(x) == <<x>>
Unwrap(o) == o[1]

\* Scale factors the host reports.
Scales == {1, 2}
\* Physical cursor positions the host reports.
PhysPoints == {[x |-> 0, y |-> 0], [x |-> 2, y |-> 2]}

\* winit's MouseButton; every Other(n) is "Other".
MouseButtons == {"Left", "Right", "Middle", "Back", "Forward", "Other"}
\* The buttons the host's mouse has.
HostButtons == {"Left", "Back", "Other"}

\* Bounds<f32>, in 1/Den logical units.
MkBounds(x_min, y_min, width, height) ==
    [origin |-> [x |-> x_min, y |-> y_min], size |-> [width |-> width, height |-> height]]

\* Bounds the application gives its listeners.
BoundsChoices == {MkBounds(0, 0, 2, 2), MkBounds(2, 2, 2, 2)}

x_max(bounds) == bounds.origin.x + bounds.size.width
y_max(bounds) == bounds.origin.y + bounds.size.height

\* Bounds::contains: closed on all four edges.
Contains(bounds, point) ==
    /\ bounds.origin.x <= point.x
    /\ point.x <= x_max(bounds)
    /\ bounds.origin.y <= point.y
    /\ point.y <= y_max(bounds)

\* PhysicalPosition::to_logical: divide by the scale factor.
ToLogical(position, scale_factor) ==
    [x |-> (position.x * Den) \div scale_factor, y |-> (position.y * Den) \div scale_factor]

\* ------------------------------------------------------------ window events

WindowEvents ==
    {[type |-> "ScaleFactorChanged", scale_factor |-> s] : s \in Scales}
    \cup {[type |-> "CursorMoved", position |-> p] : p \in PhysPoints}
    \cup {[type |-> "CursorLeft"]}
    \cup {[type |-> "MouseInput", pressed |-> s, button |-> b] : s \in BOOLEAN, b \in HostButtons}
    \cup {[type |-> "RedrawRequested"]}
    \cup {[type |-> "Resized"]}

\* The event types window_event has an arm of its own for.
ArmTypes == {"ScaleFactorChanged", "CursorMoved", "CursorLeft", "MouseInput", "RedrawRequested"}

\* window_event's match from a button to its slot of button_states.
ButtonIndex(button) ==
    CASE button = "Left" -> 0
      [] button = "Right" -> 1
      [] button = "Middle" -> 2
      [] button = "Back" -> 3
      [] button = "Forward" -> 4

\* scan_events' match from a slot of button_states to the button it names.
ScanButton(i) ==
    CASE i = 0 -> "Left"
      [] i = 1 -> "Right"
      [] i = 2 -> "Middle"
      [] i = 3 -> "Forward"
      [] i = 4 -> "Back"

\* array::from_fn(|_| false)
AllReleased == [i \in 0 .. NumButtons - 1 |-> FALSE]

\* --------------------------------------------------------------- the state

VARIABLES
    \* EventRouterInner
    cursor_position,    \* Option<Point2<f32>>
    scale_factor,
    listeners,          \* Vec<Option<Listener>>
    button_states,      \* [bool; 5]
    \* EventRouterDispatch
    bounds_updates,     \* HashMap<usize, Bounds<f32>>: a function on the pending indices
    deregisters,        \* HashSet<usize>
    alive,              \* whether the EventRouter exists (FALSE once it is dropped)
    \* the application
    handles,            \* handles[i + 1]: how many ListenerHandles with index i are alive
    blocked,            \* the mutex the driver thread waits for forever, "" when it runs
    \* what the most recent call did
    delivered,          \* the mouse_event callbacks it made, in order (none unless it was window_event)
    returned,           \* window_event's return value
    scanned,            \* whether it was a window_event that reached scan_events
    redrawn,            \* whether it was a window_event with RedrawRequested
    skipped,            \* whether it was a window_event with an event of the last arm (_ => false)
    cursor_returned,    \* whether it was a window_event that found cursor_position None and set it
    called,             \* the call the listeners made in its callbacks, on a handle or the router ("none" if none)
    \* history
    issued,             \* the indices register_listener has returned, in order
    dropped,            \* indices of which a ListenerHandle has been dropped
    requested,          \* the bounds of the latest update_bounds call per index since the last scan
    was_inside,         \* indices of the listeners whose bounds held the cursor at their last scan with a known cursor
    sent_down,          \* <<index, button>>: the last of ButtonDown and ButtonUp delivered to the live listener index for button was ButtonDown
    press_outside,      \* <<index, i>>: button slot i went down while the cursor was outside listener index
    \* the layout pass
    view,               \* Option of the layout view under construction or in use
    measured,           \* Option<RectSize<f32>>: what its last preferred_size returned
    applied             \* Option of the bounds its last apply_bounds got and handed to the subviews

vars == <<cursor_position, scale_factor, listeners, button_states, bounds_updates,
          deregisters, alive, handles, blocked, delivered, returned, scanned, redrawn, skipped,
          cursor_returned, called, issued, dropped, requested, was_inside, press_outside, sent_down,
          view, measured, applied>>

\* The variables of the layout pass, which no call on the router touches.
layout_vars == <<view, measured, applied>>

\* The variables of the router and its handles, which no layout call touches.
router_vars == <<cursor_position, scale_factor, listeners, button_states, bounds_updates,
                 deregisters, alive, handles, blocked, delivered, returned, scanned, redrawn,
                 skipped, cursor_returned, called, issued, dropped, requested, was_inside, press_outside,
                 sent_down>>

\* listeners.get(index), flattened: None for a tombstone and for an index out of range.
ListenerAt(ls, index) == IF index + 1 \in DOMAIN ls THEN ls[index + 1] ELSE None

IsLive(ls, index) == ListenerAt(ls, index) # None

\* ---------------------------------------------------------------- the scan

\* A deregister that forgets the pending indices without removing their listeners.
Deregister_Forgets(ls, pending, held) ==
    [listeners |-> ls, deregisters |-> {}, count |-> Cardinality(pending),
     held |-> held \ {"deregisters"}]

\* A deregister whose guard of the deregisters mutex outlives the call.
Deregister_KeepsGuard(ls, pending, held) ==
    [listeners |-> [k \in DOMAIN ls |-> IF (k - 1) \in pending THEN None ELSE ls[k]],
     deregisters |-> {}, count |-> Cardinality(pending), held |-> held]

\* EventRouter::deregister: tombstone every pending index, clear the set. The guard
\* of the deregisters mutex is a local of the function: it is dropped on return.
Deregister(ls, pending, held) ==
    [listeners |-> [k \in DOMAIN ls |-> IF (k - 1) \in pending THEN None ELSE ls[k]],
     deregisters |-> {},
     count |-> Cardinality(pending),
     held |-> held \ {"deregisters"}]

\* An update_bounds that applies the pending updates and leaves them in the map.
UpdateBounds_KeepsMap(ls, updates, held) ==
    [listeners |-> [k \in DOMAIN ls |->
                        IF (k - 1) \in DOMAIN updates /\ ls[k] # None
                        THEN Some([Unwrap(ls[k]) EXCEPT !.bounds = updates[k - 1]])
                        ELSE ls[k]],
     bounds_updates |-> updates,
     count |-> Cardinality(DOMAIN updates),
     held |-> held \ {"bounds_updates"}]

\* EventRouter::update_bounds: apply every pending update to a live listener, clear
\* the map. The guard of the bounds_updates mutex is dropped on return.
UpdateBounds(ls, updates, held) ==
    [listeners |-> [k \in DOMAIN ls |->
                        IF (k - 1) \in DOMAIN updates /\ ls[k] # None
                        THEN Some([Unwrap(ls[k]) EXCEPT !.bounds = updates[k - 1]])
                        ELSE ls[k]],
     bounds_updates |-> << >>,
     count |-> Cardinality(DOMAIN updates),
     held |-> held \ {"bounds_updates"}]

MouseEvent(kind, position) == [kind |-> kind, cursor_position |-> position]

\* One callback: listener.object.mouse_event(event, ui_state), made while the scan
\* holds the mutexes in held. i is the button slot the scan is at, -1 for hovering.
Call(index, i, event, held) == [listener |-> index, i |-> i, event |-> event, held |-> held]

\* A hovering scan that fires HoveringStart without recording it in is_hovered.
HoverScan_NoFlag(listener, index, inside, position, held) ==
    IF inside /\ ~listener.is_hovered
    THEN [listener |-> listener,
          calls |-> <<Call(index, -1, MouseEvent([tag |-> "HoveringStart"], position), held)>>,
          should_redraw |-> TRUE]
    ELSE IF ~inside /\ listener.is_hovered
    THEN [listener |-> [listener EXCEPT !.is_hovered = FALSE],
          calls |-> <<Call(index, -1, MouseEvent([tag |-> "HoveringFinish"], position), held)>>,
          should_redraw |-> TRUE]
    ELSE [listener |-> listener, calls |-> << >>, should_redraw |-> FALSE]

\* Lines 215-234: the hovering part of the scan of one listener.
HoverScan(listener, index, inside, position, held) ==
    IF inside /\ ~listener.is_hovered
    THEN [listener |-> [listener EXCEPT !.is_hovered = TRUE],
          calls |-> <<Call(index, -1, MouseEvent([tag |-> "HoveringStart"], position), held)>>,
          should_redraw |-> TRUE]
    ELSE IF ~inside /\ listener.is_hovered
    THEN [listener |-> [listener EXCEPT !.is_hovered = FALSE],
          calls |-> <<Call(index, -1, MouseEvent([tag |-> "HoveringFinish"], position), held)>>,
          should_redraw |-> TRUE]
    ELSE [listener |-> listener, calls |-> << >>, should_redraw |-> FALSE]

\* A started_inside that is the containment at the scan of the ButtonDown.
StartedInside_Now(is_hovered_before, inside) == inside

\* Line 261: started_inside of a ButtonDown is the hover flag before the scan.
StartedInside(is_hovered_before, inside) == is_hovered_before

\* A round that does not ask for a redraw when it delivers ButtonUp.
ButtonScan_NoRedrawOnUp(i, state, listener_state, index, inside, is_hovered_before, position, held) ==
    LET button == ScanButton(i) IN
    IF ~state /\ listener_state
    THEN [listener_state |-> state,
          calls |-> <<Call(index, i,
                           MouseEvent([tag |-> "ButtonUp", button |-> button, inside |-> inside],
                                      position), held)>>,
          should_redraw |-> FALSE]
    ELSE IF state /\ ~listener_state /\ inside
    THEN [listener_state |-> state,
          calls |-> <<Call(index, i,
                           MouseEvent([tag |-> "ButtonDown", button |-> button,
                                       started_inside |-> StartedInside(is_hovered_before, inside)],
                                      position), held)>>,
          should_redraw |-> TRUE]
    ELSE [listener_state |-> listener_state, calls |-> << >>, should_redraw |-> FALSE]

\* A round that delivers ButtonDown without recording the press in the listener.
ButtonScan_ForgetsPress(i, state, listener_state, index, inside, is_hovered_before, position, held) ==
    LET button == ScanButton(i) IN
    IF ~state /\ listener_state
    THEN [listener_state |-> state,
          calls |-> <<Call(index, i,
                           MouseEvent([tag |-> "ButtonUp", button |-> button, inside |-> inside],
                                      position), held)>>,
          should_redraw |-> TRUE]
    ELSE IF state /\ ~listener_state /\ inside
    THEN [listener_state |-> listener_state,
          calls |-> <<Call(index, i,
                           MouseEvent([tag |-> "ButtonDown", button |-> button,
                                       started_inside |-> StartedInside(is_hovered_before, inside)],
                                      position), held)>>,
          should_redraw |-> TRUE]
    ELSE [listener_state |-> listener_state, calls |-> << >>, should_redraw |-> FALSE]

\* A round that delivers ButtonUp and leaves the listener's button pressed.
ButtonScan_KeepsPress(i, state, listener_state, index, inside, is_hovered_before, position, held) ==
    LET button == ScanButton(i) IN
    IF ~state /\ listener_state
    THEN [listener_state |-> listener_state,
          calls |-> <<Call(index, i,
                           MouseEvent([tag |-> "ButtonUp", button |-> button, inside |-> inside],
                                      position), held)>>,
          should_redraw |-> TRUE]
    ELSE IF state /\ ~listener_state /\ inside
    THEN [listener_state |-> state,
          calls |-> <<Call(index, i,
                           MouseEvent([tag |-> "ButtonDown", button |-> button,
                                       started_inside |-> StartedInside(is_hovered_before, inside)],
                                      position), held)>>,
          should_redraw |-> TRUE]
    ELSE [listener_state |-> listener_state, calls |-> << >>, should_redraw |-> FALSE]

\* Lines 241-271: one round of the loop over the button slots.
ButtonScan(i, state, listener_state, index, inside, is_hovered_before, position, held) ==
    LET button == ScanButton(i) IN
    IF ~state /\ listener_state
    THEN [listener_state |-> state,
          calls |-> <<Call(index, i,
                           MouseEvent([tag |-> "ButtonUp", button |-> button, inside |-> inside],
                                      position), held)>>,
          should_redraw |-> TRUE]
    ELSE IF state /\ ~listener_state /\ inside
    THEN [listener_state |-> state,
          calls |-> <<Call(index, i,
                           MouseEvent([tag |-> "ButtonDown", button |-> button,
                                       started_inside |-> StartedInside(is_hovered_before, inside)],
                                      position), held)>>,
          should_redraw |-> TRUE]
    ELSE [listener_state |-> listener_state, calls |-> << >>, should_redraw |-> FALSE]

\* The callbacks of the button slots i .. NumButtons - 1, in the loop's order.
RECURSIVE ButtonCalls(_, _)
ButtonCalls(rounds, i) ==
    IF i >= NumButtons THEN << >> ELSE rounds[i].calls \o ButtonCalls(rounds, i + 1)

\* Lines 214-273: the scan of one live listener.
ScanListener(listener, index, position, states, held) ==
    LET inside == Contains(listener.bounds, position)
        is_hovered_before == listener.is_hovered
        hover == HoverScan(listener, index, inside, position, held)
        rounds == [[i \in 0 .. NumButtons - 1 |->
                      ButtonScan(i, states[i], listener.button_states[i], index, inside,
                                 is_hovered_before, position, held)] EXCEPT ![0] = @]
    IN  [listener |-> [hover.listener EXCEPT
                          !.button_states = [i \in 0 .. NumButtons - 1 |-> rounds[i].listener_state]],
         calls |-> hover.calls \o ButtonCalls(rounds, 0),
         should_redraw |-> hover.should_redraw
                           \/ \E i \in 0 .. NumButtons - 1 : rounds[i].should_redraw]

\* The callbacks of the listeners k .. Len(scans), in registration order.
RECURSIVE ListenerCalls(_, _)
ListenerCalls(scans, k) ==
    IF k > Len(scans) THEN << >>
    ELSE (IF scans[k] = None THEN << >> ELSE Unwrap(scans[k]).calls) \o ListenerCalls(scans, k + 1)

\* A scan that ends the hovering of every listener when the cursor position is unknown,
\* and asks for a redraw if a listener was hovered.
UnknownCursor_EndsHover(ls) ==
    [listeners |-> [k \in DOMAIN ls |->
                        IF ls[k] = None THEN None
                        ELSE Some([Unwrap(ls[k]) EXCEPT !.is_hovered = FALSE])],
     calls |-> << >>,
     should_redraw |-> \E k \in DOMAIN ls : ls[k] # None /\ Unwrap(ls[k]).is_hovered]

\* A scan that, when the cursor position is unknown, clears every hover flag in silence.
UnknownCursor_ForgetsHover(ls) ==
    [listeners |-> [k \in DOMAIN ls |->
                        IF ls[k] = None THEN None
                        ELSE Some([Unwrap(ls[k]) EXCEPT !.is_hovered = FALSE])],
     calls |-> << >>,
     should_redraw |-> FALSE]

\* A scan that, when the cursor position is unknown, releases every listener's buttons
\* in silence.
UnknownCursor_ForgetsPresses(ls) ==
    [listeners |-> [k \in DOMAIN ls |->
                        IF ls[k] = None THEN None
                        ELSE Some([Unwrap(ls[k]) EXCEPT !.button_states = AllReleased])],
     calls |-> << >>,
     should_redraw |-> FALSE]

\* Lines 207-209: the cursor position is unknown, the scan returns at once.
UnknownCursor(ls) == [listeners |-> ls, calls |-> << >>, should_redraw |-> FALSE]

\* EventRouter::scan_events, called with the main mutex held.
ScanEvents(position, ls, states, pending, updates, held) ==
    LET d == Deregister(ls, pending, held \cup {"deregisters"})
        u == UpdateBounds(d.listeners, updates, d.held \cup {"bounds_updates"})
        scans == [k \in DOMAIN ls |->
                    IF u.listeners[k] = None THEN None
                    ELSE Some(ScanListener(Unwrap(u.listeners[k]), k - 1, Unwrap(position),
                                           states, u.held))] \o << >>
        r == IF position = None THEN UnknownCursor(u.listeners)
             ELSE [listeners |-> [k \in DOMAIN ls |->
                                     IF scans[k] = None THEN None
                                     ELSE Some(Unwrap(scans[k]).listener)],
                   calls |-> ListenerCalls(scans, 1),
                   should_redraw |-> \E k \in DOMAIN ls :
                                        scans[k] # None /\ Unwrap(scans[k]).should_redraw]
    IN  [listeners |-> r.listeners, deregisters |-> d.deregisters,
         bounds_updates |-> u.bounds_updates, calls |-> r.calls,
         should_redraw |-> r.should_redraw]


\* ------------------------------------------------------------ window_event

\* A window_event that scans whatever the event is, and reads nothing from it.
WindowEventCall_ScansEveryEvent(event, position, factor, ls, states, pending, updates) ==
    LET r == ScanEvents(position, ls, states, pending, updates, {"inner"})
    IN  [cursor_position |-> position, scale_factor |-> factor,
         listeners |-> r.listeners, button_states |-> states,
         deregisters |-> r.deregisters, bounds_updates |-> r.bounds_updates,
         calls |-> r.calls, ret |-> r.should_redraw, scanned |-> TRUE]

\* What window_event makes of the router's state; scanned tells whether it reached
\* scan_events (MouseButton::Other and the events of the last arm return before).
WindowEventCall(event, position, factor, ls, states, pending, updates) ==
    LET ignored == [cursor_position |-> position, scale_factor |-> factor, listeners |-> ls,
                    button_states |-> states, deregisters |-> pending,
                    bounds_updates |-> updates, calls |-> << >>, ret |-> FALSE,
                    scanned |-> FALSE]
        Scanned(position1, factor1, states1) ==
            LET r == ScanEvents(position1, ls, states1, pending, updates, {"inner"})
            IN  [cursor_position |-> position1, scale_factor |-> factor1,
                 listeners |-> r.listeners, button_states |-> states1,
                 deregisters |-> r.deregisters, bounds_updates |-> r.bounds_updates,
                 calls |-> r.calls, ret |-> r.should_redraw, scanned |-> TRUE]
    IN  CASE event.type = "ScaleFactorChanged" ->
                Scanned(position, event.scale_factor, states)
          [] event.type = "CursorMoved" ->
                Scanned(Some(ToLogical(event.position, factor)), factor, states)
          [] event.type = "CursorLeft" ->
                Scanned(None, factor, states)
          [] event.type = "MouseInput" ->
                IF event.button = "Other" THEN ignored
                ELSE Scanned(position, factor,
                             [states EXCEPT ![ButtonIndex(event.button)] = event.pressed])
          [] event.type = "RedrawRequested" ->
                Scanned(position, factor, states)
          [] OTHER -> ignored

\* ------------------------------------------------------------ the handles

\* A drop that deregisters the listener only when the last handle of the index goes.
DropInsert_WhenLast(pending, index) ==
    IF handles[index + 1] > 1 THEN pending ELSE pending \cup {index}

\* Drop for ListenerHandle: insert the index into the deregister set.
DropInsert(pending, index) == pending \cup {index}

\* An insert that keeps the earlier entry of the index.
UpdateInsert_KeepsFirst(updates, index, bounds) == updates @@ (index :> bounds)

\* ListenerHandle::update_bounds: insert (index, bounds) into the map, replacing an
\* earlier entry of the index. The listeners are not touched.
UpdateInsert(updates, index, bounds) == (index :> bounds) @@ updates

LiveHandles == {index \in 0 .. Len(handles) - 1 : handles[index + 1] > 0}

\* What the listeners do in the mouse_event callbacks of a scan: nothing to the router,
\* or one call on a ListenerHandle, made in one of the callbacks of the scan.
CallbackOps(calls) ==
    {[op |-> "none"]}
    \cup {[op |-> "drop", index |-> index] :
            index \in IF calls = << >> THEN {} ELSE LiveHandles}
    \cup {[op |-> "update_bounds", index |-> index, bounds |-> bounds] :
            index \in IF calls = << >> THEN {} ELSE LiveHandles, bounds \in BoundsChoices}

\* The calls on the router itself a listener may make in one of its callbacks: at is the
\* place of that callback among the callbacks of the scan.
ReentrantOps(calls) ==
    {[op |-> op, at |-> at] : op \in {"register_listener", "window_event"}, at \in DOMAIN calls}

\* A Weak that upgrades also when the router is gone.
Upgrade_Always == TRUE

\* router_dispatch.upgrade(): the Weak of a handle upgrades while the router exists.
Upgrade == alive

\* Router calls that lock a mutex of their own, apart from the one the scan holds.
MutexOf_ApartFromScan(op) ==
    CASE op = "drop" -> "deregisters"
      [] op = "update_bounds" -> "bounds_updates"
      [] op \in {"register_listener", "window_event"} -> "registry"

\* The mutex a call locks: lines 313 and 323 for the handles, 93 and 129-166 for the router.
MutexOf(op) ==
    CASE op = "drop" -> "deregisters"
      [] op = "update_bounds" -> "bounds_updates"
      [] op \in {"register_listener", "window_event"} -> "inner"

\* Whether the call cb, made in a callback of the scan with result r, waits for a mutex
\* the scan holds during that callback. std's Mutex is not reentrant: the wait never ends.
Waits(r, cb) ==
    /\ cb.op # "none"
    /\ IF "at" \in DOMAIN cb
       THEN MutexOf(cb.op) \in r.calls[cb.at].held
       ELSE \E at \in DOMAIN r.calls : MutexOf(cb.op) \in r.calls[at].held

\* The listeners without what the scan did to them for the callbacks calls: the scan sets
\* the flag of a callback just before it makes it (lines 220, 228, 251, 260).
RECURSIVE Undone(_, _)
Undone(ls, calls) ==
    IF calls = << >> THEN ls
    ELSE LET call == Head(calls)
             k == call.listener + 1
             tag == call.event.kind.tag
             listener == Unwrap(ls[k])
             before == CASE tag = "HoveringStart" -> [listener EXCEPT !.is_hovered = FALSE]
                         [] tag = "HoveringFinish" -> [listener EXCEPT !.is_hovered = TRUE]
                         [] tag = "ButtonDown" -> [listener EXCEPT !.button_states[call.i] = FALSE]
                         [] tag = "ButtonUp" -> [listener EXCEPT !.button_states[call.i] = TRUE]
         IN  Undone([ls EXCEPT ![k] = Some(before)], Tail(calls))

\* A scan that reads the deregister set again after each callback: a listener whose
\* handle a callback dropped is removed at once and gets none of the callbacks left.
Dispatched_RereadsQueues(r, cb) ==
    IF cb.op = "drop" /\ ~Waits(r, cb)
    THEN [listeners |-> [k \in DOMAIN r.listeners |->
                            IF k = cb.index + 1 THEN None ELSE r.listeners[k]],
          calls |-> SubSeq(r.calls, 1, 1)
                    \o SelectSeq(SubSeq(r.calls, 2, Len(r.calls)),
                                 LAMBDA call : call.listener # cb.index),
          ret |-> r.ret]
    ELSE [listeners |-> r.listeners, calls |-> r.calls, ret |-> r.ret]

\* What the scan with result r comes to when the call cb is made in one of its callbacks.
\* The loop works on the listeners it borrowed at line 210 and reads neither queue after
\* lines 205-206, so a call on a handle leaves the scan as it is. A call that waits for
\* the main mutex stops the scan in the callback cb.at: the callbacks before it and that
\* one are made, the rest of the loop is not run and window_event does not return.
Dispatched(r, cb) ==
    IF cb.op \in {"register_listener", "window_event"} /\ Waits(r, cb)
    THEN [listeners |-> Undone(r.listeners, SubSeq(r.calls, cb.at + 1, Len(r.calls))),
          calls |-> SubSeq(r.calls, 1, cb.at),
          ret |-> FALSE]
    ELSE [listeners |-> r.listeners, calls |-> r.calls, ret |-> r.ret]

\* ------------------------------------------------------------- the actions

Init ==
    /\ cursor_position = None
    /\ scale_factor = 1
    /\ listeners = << >>
    /\ button_states = AllReleased
    /\ bounds_updates = << >>
    /\ deregisters = {}
    /\ alive = TRUE
    /\ handles = << >>
    /\ blocked = ""
    /\ delivered = << >>
    /\ returned = FALSE
    /\ scanned = FALSE
    /\ redrawn = FALSE
    /\ skipped = FALSE
    /\ issued = << >>
    /\ dropped = {}
    /\ requested = << >>
    /\ was_inside = {}
    /\ press_outside = {}
    /\ sent_down = {}
    /\ cursor_returned = FALSE
    /\ called = "none"
    /\ view = None
    /\ measured = None
    /\ applied = None

\* A call that is not window_event makes no callback.
NoCallbacks ==
    /\ delivered' = << >>
    /\ returned' = FALSE
    /\ scanned' = FALSE
    /\ redrawn' = FALSE
    /\ skipped' = FALSE
    /\ cursor_returned' = FALSE
    /\ called' = "none"

\* A register_listener that gives out the index of the first tombstoned slot again.
NewIndex_FirstFree(ls) ==
    IF \E k \in DOMAIN ls : ls[k] = None
    THEN (CHOOSE k \in DOMAIN ls : ls[k] = None /\ \A j \in 1 .. k - 1 : ls[j] # None) - 1
    ELSE Len(ls)

\* Line 95: the index register_listener returns is the length of the Vec before the push.
NewIndex(ls) == Len(ls)

\* EventRouter::register_listener, for an application that registers limit listeners.
RegisterListenerUpTo(bounds, limit) ==
    /\ blocked = ""
    /\ alive
    /\ Len(listeners) < limit
    /\ listeners' = Append(listeners, Some([bounds |-> bounds, is_hovered |-> FALSE,
                                            button_states |-> AllReleased]))
    /\ \E index \in {NewIndex(listeners)} :
          /\ handles' = IF index < Len(handles)
                        THEN [handles EXCEPT ![index + 1] = @ + 1]
                        ELSE Append(handles, 1)
          /\ issued' = Append(issued, index)
    /\ NoCallbacks
    /\ UNCHANGED <<cursor_position, scale_factor, button_states, bounds_updates, deregisters,
                   alive, blocked, dropped, requested, was_inside, press_outside, sent_down, layout_vars>>

RegisterListener(bounds) == RegisterListenerUpTo(bounds, MaxListeners)

\* The application drops a ListenerHandle (outside a callback).
DropHandle(index) ==
    /\ blocked = ""
    /\ index \in LiveHandles
    /\ deregisters' = IF Upgrade THEN DropInsert(deregisters, index) ELSE deregisters
    /\ handles' = [handles EXCEPT ![index + 1] = @ - 1]
    /\ dropped' = dropped \cup {index}
    /\ NoCallbacks
    /\ UNCHANGED <<cursor_position, scale_factor, listeners, button_states, bounds_updates,
                   alive, blocked, requested, was_inside, press_outside, sent_down, issued, layout_vars>>

\* The application calls ListenerHandle::update_bounds (outside a callback).
HandleUpdateBounds(index, bounds) ==
    /\ blocked = ""
    /\ index \in LiveHandles
    /\ bounds_updates' = IF Upgrade THEN UpdateInsert(bounds_updates, index, bounds)
                          ELSE bounds_updates
    /\ requested' = IF Upgrade THEN (index :> bounds) @@ requested ELSE requested
    /\ NoCallbacks
    /\ UNCHANGED <<cursor_position, scale_factor, listeners, button_states, deregisters,
                   alive, handles, blocked, dropped, was_inside, press_outside, sent_down, issued, layout_vars>>

LiveIndices(ls) == {k - 1 : k \in {k \in DOMAIN ls : ls[k] # None}}

\* press_outside after window_event(event) with result r: a press of a released
\* button, scanned with the cursor known and outside a live listener, is recorded for
\* that listener until the button is released or the listener removed.
PressOutside(event, r) ==
    LET kept == {p \in press_outside : p[1] \in LiveIndices(r.listeners) /\ r.button_states[p[2]]}
    IN  IF /\ event.type = "MouseInput"
           /\ event.button # "Other"
           /\ event.pressed
           /\ ~button_states[ButtonIndex(event.button)]
           /\ r.cursor_position # None
        THEN kept \cup {<<index, ButtonIndex(event.button)>> :
                          index \in {index \in LiveIndices(r.listeners) :
                                       ~Contains(Unwrap(r.listeners[index + 1]).bounds,
                                                 Unwrap(r.cursor_position))}}
        ELSE kept

\* The host's mouse: of the buttons the router tracks, one is held at a time.
HostAllows(event) ==
    (event.type = "MouseInput" /\ event.button # "Other" /\ event.pressed)
        => \A i \in DOMAIN button_states : ~button_states[i]

\* was_inside after a window_event with result r.
WasInside(r) ==
    IF r.scanned /\ r.cursor_position # None
    THEN {index \in LiveIndices(r.listeners) :
            Contains(Unwrap(r.listeners[index + 1]).bounds, Unwrap(r.cursor_position))}
    ELSE was_inside \cap LiveIndices(r.listeners)

\* sent after the callbacks calls were made in order: a ButtonDown enters its listener and
\* button, a ButtonUp takes them out.
RECURSIVE AfterCalls(_, _)
AfterCalls(sent, calls) ==
    IF calls = << >> THEN sent
    ELSE LET call == Head(calls)
             tag == call.event.kind.tag
         IN  AfterCalls(IF tag = "ButtonDown"
                        THEN sent \cup {<<call.listener, call.event.kind.button>>}
                        ELSE IF tag = "ButtonUp"
                        THEN sent \ {<<call.listener, call.event.kind.button>>}
                        ELSE sent,
                        Tail(calls))

\* sent_down after a window_event with result r, kept for the live listeners.
SentDown(r) == {p \in AfterCalls(sent_down, r.calls) : p[1] \in LiveIndices(r.listeners)}

\* EventRouter::window_event, with what the listeners do in their callbacks.
WindowEventOf(event, reentrant) ==
    /\ blocked = ""
    /\ alive
    /\ UNCHANGED <<alive, issued, layout_vars>>
    /\ HostAllows(event)
    /\ \E r \in {WindowEventCall(event, cursor_position, scale_factor, listeners,
                                 button_states, deregisters, bounds_updates)} :
           /\ cursor_position' = r.cursor_position
           /\ scale_factor' = r.scale_factor
           /\ button_states' = r.button_states
           /\ scanned' = r.scanned
           /\ redrawn' = (event.type = "RedrawRequested")
           /\ skipped' = (event.type \notin ArmTypes)
           /\ cursor_returned' = (cursor_position = None /\ r.cursor_position # None)
           /\ press_outside' = PressOutside(event, r)
           /\ was_inside' = WasInside(r)
           /\ sent_down' = SentDown(r)
           /\ \E cb \in CallbackOps(r.calls)
                         \cup (IF reentrant THEN ReentrantOps(r.calls) ELSE {}),
                 before \in {IF r.scanned THEN << >> ELSE requested} :
                /\ called' = cb.op
                /\ \E q \in {Dispatched(r, cb)} :
                      /\ listeners' = q.listeners
                      /\ delivered' = q.calls
                      /\ returned' = q.ret
                /\ IF cb.op = "none"
                   THEN /\ deregisters' = r.deregisters
                        /\ bounds_updates' = r.bounds_updates
                        /\ requested' = before
                        /\ UNCHANGED <<handles, dropped, blocked>>
                   ELSE IF Waits(r, cb)
                   THEN \* the callback waits for a mutex its own thread holds
                        /\ blocked' = MutexOf(cb.op)
                        /\ deregisters' = r.deregisters
                        /\ bounds_updates' = r.bounds_updates
                        /\ requested' = before
                        /\ UNCHANGED <<handles, dropped>>
                   ELSE IF cb.op = "drop"
                   THEN /\ deregisters' = DropInsert(r.deregisters, cb.index)
                        /\ handles' = [handles EXCEPT ![cb.index + 1] = @ - 1]
                        /\ dropped' = dropped \cup {cb.index}
                        /\ bounds_updates' = r.bounds_updates
                        /\ requested' = before
                        /\ UNCHANGED blocked
                   ELSE IF cb.op = "update_bounds"
                   THEN /\ bounds_updates' = UpdateInsert(r.bounds_updates, cb.index, cb.bounds)
                        /\ requested' = (cb.index :> cb.bounds) @@ before
                        /\ deregisters' = r.deregisters
                        /\ UNCHANGED <<handles, dropped, blocked>>
                   ELSE \* a call on the router that got its mutex
                        /\ deregisters' = r.deregisters
                        /\ bounds_updates' = r.bounds_updates
                        /\ requested' = before
                        /\ UNCHANGED <<handles, dropped, blocked>>

\* window_event of a router whose listeners call only their handles in the callbacks.
WindowEvent(event) == WindowEventOf(event, FALSE)

Next ==
    \/ \E bounds \in BoundsChoices : RegisterListener(bounds)
    \/ \E index \in 0 .. MaxListeners - 1 : DropHandle(index)
    \/ \E index \in 0 .. MaxListeners - 1, bounds \in BoundsChoices :
            HandleUpdateBounds(index, bounds)
    \/ \E event \in WindowEvents : WindowEvent(event)

Spec == Init /\ [][Next]_vars

\* ------------------------------------------- clones of handles, the router's end

\* ListenerHandle::clone (derived): one more handle of the index.
CloneHandle(index) ==
    /\ blocked = ""
    /\ index \in LiveHandles
    /\ handles[index + 1] < MaxClones
    /\ handles' = [handles EXCEPT ![index + 1] = @ + 1]
    /\ NoCallbacks
    /\ UNCHANGED <<cursor_position, scale_factor, listeners, button_states, bounds_updates,
                   deregisters, alive, blocked, dropped, requested, was_inside,
                   press_outside, sent_down, issued, layout_vars>>

\* The application drops the EventRouter: the Arc of its dispatch goes with it. The
\* variables of the router keep their last values; nothing reads them any more.
DropRouter ==
    /\ blocked = ""
    /\ alive
    /\ alive' = FALSE
    /\ NoCallbacks
    /\ UNCHANGED <<cursor_position, scale_factor, listeners, button_states, bounds_updates,
                   deregisters, handles, blocked, dropped, requested, was_inside,
                   press_outside, sent_down, issued, layout_vars>>

\* The window events of SpecHandles: one button, one scale factor.
HandleEvents ==
    {event \in WindowEvents :
        /\ event.type \in {"CursorMoved", "MouseInput"}
        /\ event.type = "MouseInput" => event.button = "Left"}

\* An application that registers a listener when the ones before it are removed, clones
\* and drops the handles, and drops the router in the end.
NextHandles ==
    \/ LiveIndices(listeners) = {} /\ RegisterListenerUpTo(MkBounds(0, 0, 2, 2), MaxRegistered)
    \/ \E index \in 0 .. MaxRegistered - 1 : CloneHandle(index)
    \/ \E index \in 0 .. MaxRegistered - 1 : DropHandle(index)
    \/ \E index \in 0 .. MaxRegistered - 1 : HandleUpdateBounds(index, MkBounds(2, 2, 2, 2))
    \/ \E event \in HandleEvents : WindowEvent(event)
    \/ DropRouter

SpecHandles == Init /\ [][NextHandles]_vars

\* --------------------------------------- listeners that call the router back

\* An application with up to MaxRegistered listeners, which in their callbacks drop and
\* update handles and call register_listener and window_event of the router.
NextCallbacks ==
    \/ \E bounds \in BoundsChoices : RegisterListenerUpTo(bounds, MaxRegistered)
    \/ \E event \in HandleEvents : WindowEventOf(event, TRUE)

SpecCallbacks == Init /\ [][NextCallbacks]_vars

\* ------------------------------------------------------------ f32 arithmetic

\* An f32 is computed exactly, as the quotient n / d of two integers in lowest terms with
\* d > 0. d = 0 stands for the values a division by zero produces: n = 1 is +inf, n = -1 is
\* -inf and n = 0 is NaN. Rounding and the sign of zero are left out.
RECURSIVE GCD(_, _)
GCD(a, b) == IF b = 0 THEN a ELSE GCD(b, a % b)

Abs(x) == IF x < 0 THEN -x ELSE x

Sign(x) == IF x > 0 THEN 1 ELSE IF x < 0 THEN -1 ELSE 0

F32(n, d) ==
    IF d = 0
    THEN [n |-> Sign(n), d |-> 0]
    ELSE LET g == GCD(Abs(n), Abs(d)) IN [n |-> Sign(d) * (n \div g), d |-> Abs(d) \div g]

\* usize as f32, and the literals of the code.
FromInt(k) == [n |-> k, d |-> 1]

Zero == FromInt(0)

One == FromInt(1)

Half == F32(1, 2)

NaN == [n |-> 0, d |-> 0]

INFINITY == [n |-> 1, d |-> 0]

IsNaN(a) == a.d = 0 /\ a.n = 0

IsFinite(a) == a.d # 0

Neg(a) == [n |-> -a.n, d |-> a.d]

FAdd(a, b) ==
    IF IsFinite(a) /\ IsFinite(b) THEN F32(a.n * b.d + b.n * a.d, a.d * b.d)
    ELSE IF IsNaN(a) \/ IsNaN(b) THEN NaN
    ELSE IF ~IsFinite(a) /\ ~IsFinite(b) THEN (IF a.n = b.n THEN a ELSE NaN)
    ELSE IF ~IsFinite(a) THEN a
    ELSE b

FSub(a, b) == FAdd(a, Neg(b))

FMul(a, b) ==
    IF IsFinite(a) /\ IsFinite(b) THEN F32(a.n * b.n, a.d * b.d)
    ELSE IF IsNaN(a) \/ IsNaN(b) THEN NaN
    ELSE IF a.n = 0 \/ b.n = 0 THEN NaN
    ELSE [n |-> Sign(a.n) * Sign(b.n), d |-> 0]

FDiv(a, b) ==
    IF IsNaN(a) \/ IsNaN(b) THEN NaN
    ELSE IF ~IsFinite(a) THEN (IF ~IsFinite(b) THEN NaN
                               ELSE [n |-> IF b.n < 0 THEN -a.n ELSE a.n, d |-> 0])
    ELSE IF ~IsFinite(b) THEN Zero
    ELSE IF b.n = 0 THEN [n |-> Sign(a.n), d |-> 0]
    ELSE F32(a.n * b.d, a.d * b.n)

\* a < b and a <= b of f32: false when either is NaN.
FLt(a, b) ==
    IF IsNaN(a) \/ IsNaN(b) THEN FALSE
    ELSE IF IsFinite(a) /\ IsFinite(b) THEN a.n * b.d < b.n * a.d
    ELSE IF ~IsFinite(a) /\ ~IsFinite(b) THEN a.n < b.n
    ELSE IF ~IsFinite(a) THEN a.n < 0
    ELSE b.n > 0

FLe(a, b) == ~IsNaN(a) /\ ~IsNaN(b) /\ (a = b \/ FLt(a, b))

\* f32::min and f32::max: a NaN operand is ignored.
FMin(a, b) == IF IsNaN(a) THEN b ELSE IF IsNaN(b) THEN a ELSE IF FLt(b, a) THEN b ELSE a

FMax(a, b) == IF IsNaN(a) THEN b ELSE IF IsNaN(b) THEN a ELSE IF FLt(a, b) THEN b ELSE a

\* Option::unwrap_or
UnwrapOr(option, default) == IF option = None THEN default ELSE Unwrap(option)

\* ------------------------------------------------------- sizes, bounds, axes

RectSize(width, height) == [width |-> width, height |-> height]

\* RectSize::min, RectSize::max, RectSize::scaled: per axis.
RectSizeMin(self, other) ==
    RectSize(FMin(self.width, other.width), FMin(self.height, other.height))

RectSizeMax(self, other) ==
    RectSize(FMax(self.width, other.width), FMax(self.height, other.height))

scaled(self, scale_horizontal, scale_vertical) ==
    RectSize(FMul(self.width, scale_horizontal), FMul(self.height, scale_vertical))

\* Bounds::new and Bounds::from_scalars over f32.
BoundsNew(origin, size) == [origin |-> origin, size |-> size]

from_scalars(x_min, y_min, width, height) ==
    BoundsNew([x |-> x_min, y |-> y_min], RectSize(width, height))

Axes == {"Horizontal", "Vertical"}

\* axis_utils: alpha is the length along the axis, beta the length across it; a and b are
\* the coordinates along and across it.
new_on_axis(axis, length_alpha, length_beta) ==
    IF axis = "Horizontal" THEN RectSize(length_alpha, length_beta)
    ELSE RectSize(length_beta, length_alpha)

alpha(size, axis) == IF axis = "Horizontal" THEN size.width ELSE size.height

beta(size, axis) == IF axis = "Horizontal" THEN size.height ELSE size.width

scaled_on_axis(size, axis, scale_a, scale_b) ==
    new_on_axis(axis, FMul(alpha(size, axis), scale_a), FMul(beta(size, axis), scale_b))

point_on_axis(axis, a, b) == IF axis = "Horizontal" THEN [x |-> a, y |-> b] ELSE [x |-> b, y |-> a]

a_min(bounds, axis) == IF axis = "Horizontal" THEN bounds.origin.x ELSE bounds.origin.y

b_min(bounds, axis) == IF axis = "Horizontal" THEN bounds.origin.y ELSE bounds.origin.x

\* Point2 + Vector2
PointAdd(point, vector) == [x |-> FAdd(point.x, vector.x), y |-> FAdd(point.y, vector.y)]

\* ------------------------------------------------- StackAlignment, the paddings

Center == [kind |-> "Center"]

Leading == [kind |-> "Leading"]

Trailing == [kind |-> "Trailing"]

Ratio(r) == [kind |-> "Ratio", ratio |-> r]

\* StackAlignment::ratio
ratio(self) ==
    CASE self.kind = "Center" -> Half
      [] self.kind = "Leading" -> Zero
      [] self.kind = "Trailing" -> One
      [] self.kind = "Ratio" -> self.ratio

StackPaddingTypes == {"Interpadded", "Omnipadded"}

\* A count of paddings that takes every stack for Interpadded.
n_paddings_BetweenOnly(n_subviews, padding_type) ==
    IF n_subviews = 0 THEN 0 ELSE n_subviews - 1

\* Stack::n_paddings; StackView::preferred_size and StackView::apply_bounds spell out the
\* same match. usize::saturating_sub(1) is 0 at 0.
n_paddings(n_subviews, padding_type) ==
    IF padding_type = "Interpadded"
    THEN (IF n_subviews = 0 THEN 0 ELSE n_subviews - 1)
    ELSE n_subviews + 1

\* A shrink factor that divides the wrong way round.
Squeeze_Inverted(available, wanted) == FMin(FDiv(wanted, available), One)

\* (available / wanted).min(1.): the shrink factor of Stack, StackView, ZStackView and
\* ContainerView.
Squeeze(available, wanted) == FMin(FDiv(available, wanted), One)

\* ------------------------------------------------------ Stack (layout/stack.rs)

\* Stack::new
Stack_new(axis) ==
    [type |-> "StackBuilder", axis |-> axis, alignment |-> Center,
     padding_type |-> "Interpadded", fixed_padding |-> None, subviews |-> << >>,
     alpha_sum |-> Zero, beta_max |-> Zero]

\* Stack::subview, with the preferred size the subview reports.
Stack_subview(self, subview_size) ==
    [self EXCEPT !.beta_max = FMax(@, beta(subview_size, self.axis)),
                 !.alpha_sum = FAdd(@, alpha(subview_size, self.axis)),
                 !.subviews = Append(@, subview_size)]

\* Stack::preferred_size
Stack_preferred_size(self) ==
    LET n == FromInt(n_paddings(Len(self.subviews), self.padding_type))
    IN  new_on_axis(self.axis,
                    FAdd(self.alpha_sum, FMul(n, UnwrapOr(self.fixed_padding, Zero))),
                    self.beta_max)

\* The loop of Stack::apply_bounds from subview i on, offset_a being the accumulator: the
\* bounds handed to the subviews i, i + 1, ...
RECURSIVE Stack_place(_, _, _, _, _, _)
Stack_place(self, bounds, squeeze_a, padding, i, offset_a) ==
    IF i >= Len(self.subviews) THEN << >>
    ELSE
      LET offset == IF i # 0 \/ self.padding_type = "Omnipadded"
                    THEN FAdd(offset_a, padding)
                    ELSE offset_a
          requested_size == scaled_on_axis(self.subviews[i + 1], self.axis, squeeze_a, One)
          remaining_size == new_on_axis(self.axis,
                                        FSub(alpha(bounds.size, self.axis), offset),
                                        beta(bounds.size, self.axis))
          subview_size == RectSizeMin(requested_size, remaining_size)
          leftover_beta == FSub(beta(bounds.size, self.axis), beta(subview_size, self.axis))
          offset_b == FMul(ratio(self.alignment), leftover_beta)
          subview_bounds == BoundsNew(PointAdd(bounds.origin,
                                               point_on_axis(self.axis, offset, offset_b)),
                                      subview_size)
      IN  <<subview_bounds>>
          \o Stack_place(self, bounds, squeeze_a, padding, i + 1,
                         FAdd(offset, alpha(subview_size, self.axis)))

\* A flexible padding that hands the whole leftover to every gap.
Stack_padding_Undivided(self, bounds) ==
    LET n == FromInt(n_paddings(Len(self.subviews), self.padding_type))
        min_alpha == FAdd(self.alpha_sum, FMul(n, UnwrapOr(self.fixed_padding, Zero)))
        squeeze_a == Squeeze(alpha(bounds.size, self.axis), min_alpha)
    IN  IF self.fixed_padding # None
        THEN FMul(Unwrap(self.fixed_padding), squeeze_a)
        ELSE FMax(FSub(alpha(bounds.size, self.axis), min_alpha), Zero)

\* The padding Stack::apply_bounds puts between subviews.
Stack_padding(self, bounds) ==
    LET n == FromInt(n_paddings(Len(self.subviews), self.padding_type))
        min_alpha == FAdd(self.alpha_sum, FMul(n, UnwrapOr(self.fixed_padding, Zero)))
        squeeze_a == Squeeze(alpha(bounds.size, self.axis), min_alpha)
    IN  IF self.fixed_padding # None
        THEN FMul(Unwrap(self.fixed_padding), squeeze_a)
        ELSE FDiv(FMax(FSub(alpha(bounds.size, self.axis), min_alpha), Zero), n)

\* Stack::apply_bounds: the bounds it hands to the subviews, in order.
Stack_apply_bounds(self, bounds) ==
    LET n == FromInt(n_paddings(Len(self.subviews), self.padding_type))
        min_alpha == FAdd(self.alpha_sum, FMul(n, UnwrapOr(self.fixed_padding, Zero)))
        squeeze_a == Squeeze(alpha(bounds.size, self.axis), min_alpha)
    IN  Stack_place(self, bounds, squeeze_a, Stack_padding(self, bounds), 0, Zero)

\* --------------------------------------------------- StackView (view/stack.rs)

\* StackView::new, over subviews that report the preferred sizes subviews.
StackView_new(axis, subviews) ==
    [type |-> "StackView", axis |-> axis, subviews |-> subviews, alignment |-> Center,
     padding_type |-> "Interpadded", fixed_padding |-> None, subview_sizes |-> << >>,
     size |-> RectSize(Zero, Zero), subview_length_alpha_total |-> Zero]

\* length_alpha and length_beta of StackView::preferred_size after the first k subviews.
RECURSIVE LengthAlpha(_, _, _)
LengthAlpha(sizes, axis, k) ==
    IF k = 0 THEN Zero ELSE FAdd(LengthAlpha(sizes, axis, k - 1), alpha(sizes[k], axis))

RECURSIVE LengthBeta(_, _, _)
LengthBeta(sizes, axis, k) ==
    IF k = 0 THEN Zero ELSE FMax(LengthBeta(sizes, axis, k - 1), beta(sizes[k], axis))

\* StackView::preferred_size: the view with its caches filled; the value returned is size.
StackView_preferred_size(self) ==
    LET length_alpha == LengthAlpha(self.subviews, self.axis, Len(self.subviews))
        length_beta == LengthBeta(self.subviews, self.axis, Len(self.subviews))
        n == n_paddings(Len(self.subviews), self.padding_type)
        padding_total == FMul(FromInt(n), UnwrapOr(self.fixed_padding, Zero))
    IN  [self EXCEPT !.subview_sizes = self.subviews,
                     !.subview_length_alpha_total = length_alpha,
                     !.size = new_on_axis(self.axis, FAdd(length_alpha, padding_total),
                                          length_beta)]

\* The padding StackView::apply_bounds puts between subviews.
StackView_padding(self, bounds) ==
    LET squeeze == Squeeze(alpha(bounds.size, self.axis), alpha(self.size, self.axis))
        n == n_paddings(Len(self.subview_sizes), self.padding_type)
    IN  FMul(IF self.fixed_padding # None
             THEN Unwrap(self.fixed_padding)
             ELSE FMax(FDiv(FSub(alpha(bounds.size, self.axis),
                                 self.subview_length_alpha_total),
                            FromInt(n)),
                       Zero),
             squeeze)

\* The closure of StackView::apply_bounds from subview i on, offset_alpha being the
\* accumulator; it breaks when the cached sizes run out.
RECURSIVE StackView_place(_, _, _, _, _, _)
StackView_place(self, bounds, squeeze, padding, i, offset_alpha) ==
    IF i >= Len(self.subviews) \/ i >= Len(self.subview_sizes) THEN << >>
    ELSE
      LET requested_size == scaled_on_axis(self.subview_sizes[i + 1], self.axis, squeeze, One)
          remaining_size ==
              new_on_axis(self.axis,
                          FAdd(FSub(alpha(bounds.size, self.axis), offset_alpha),
                               a_min(bounds, self.axis)),
                          beta(bounds.size, self.axis))
          subview_size == RectSizeMin(requested_size, remaining_size)
          offset_beta == FAdd(b_min(bounds, self.axis),
                              FMul(ratio(self.alignment),
                                   FSub(beta(bounds.size, self.axis),
                                        beta(subview_size, self.axis))))
          subview_bounds == BoundsNew(point_on_axis(self.axis, offset_alpha, offset_beta),
                                      subview_size)
      IN  <<subview_bounds>>
          \o StackView_place(self, bounds, squeeze, padding, i + 1,
                             FAdd(FAdd(offset_alpha, padding), alpha(subview_size, self.axis)))

\* Whether StackView::apply_bounds logs warn_n_subviews_changed: the closure is called for
\* a subview when the cached sizes have run out.
StackView_warns(self) == Len(self.subviews) > Len(self.subview_sizes)

\* StackView::apply_bounds: the bounds it hands to the subviews, in order.
StackView_apply_bounds(self, bounds) ==
    LET squeeze == Squeeze(alpha(bounds.size, self.axis), alpha(self.size, self.axis))
        padding == StackView_padding(self, bounds)
        offset_alpha == IF self.padding_type = "Interpadded"
                        THEN FAdd(a_min(bounds, self.axis), Zero)
                        ELSE FAdd(a_min(bounds, self.axis), padding)
    IN  StackView_place(self, bounds, squeeze, padding, 0, offset_alpha)

\* -------------------------------------------------- ZStackView (view/stack.rs)

\* ZStackView::new
ZStackView_new(subviews) ==
    [type |-> "ZStackView", subviews |-> subviews, alignment_horizontal |-> Center,
     alignment_vertical |-> Center, subview_sizes |-> << >>, size |-> None]

\* size of ZStackView::preferred_size after the first k subviews.
RECURSIVE MaxSize(_, _)
MaxSize(sizes, k) ==
    IF k = 0 THEN RectSize(Zero, Zero) ELSE RectSizeMax(MaxSize(sizes, k - 1), sizes[k])

\* ZStackView::preferred_size: the view with its caches filled.
ZStackView_preferred_size(self) ==
    [self EXCEPT !.subview_sizes = self.subviews,
                 !.size = Some(MaxSize(self.subviews, Len(self.subviews)))]

\* Whether ZStackView::apply_bounds logs warn_mismatched_n_subview: the closure is called
\* for a subview when the cached sizes have run out.
ZStackView_warns(self) ==
    LET measured_self == IF self.size = None THEN ZStackView_preferred_size(self) ELSE self
    IN  Len(self.subviews) > Len(measured_self.subview_sizes)

\* ZStackView::apply_bounds: the bounds it hands to the subviews, in order; the closure
\* breaks at the first subview without a cached size.
ZStackView_apply_bounds(self, bounds) ==
    LET measured_self == IF self.size = None THEN ZStackView_preferred_size(self) ELSE self
        size == Unwrap(measured_self.size)
        squeeze_horizontal == Squeeze(bounds.size.width, size.width)
        squeeze_vertical == Squeeze(bounds.size.height, size.height)
        visited == IF Len(self.subviews) < Len(measured_self.subview_sizes)
                   THEN Len(self.subviews)
                   ELSE Len(measured_self.subview_sizes)
    IN  [k \in 1 .. visited |->
            LET subview_size == scaled(measured_self.subview_sizes[k], squeeze_horizontal,
                                       squeeze_vertical)
                padding == [x |-> FMul(FSub(bounds.size.width, subview_size.width),
                                       ratio(self.alignment_horizontal)),
                            y |-> FMul(FSub(bounds.size.height, subview_size.height),
                                       ratio(self.alignment_vertical))]
            IN  BoundsNew(PointAdd(bounds.origin, padding), subview_size)]

\* ------------------------------------------- ContainerView (view/util_views.rs)

Fixed(v) == [kind |-> "Fixed", value |-> v]

RatioOfViewSize(r) == [kind |-> "RatioOfViewSize", value |-> r]

Spread == [kind |-> "Spread"]

\* ContainerPadding::as_fixed
as_fixed(self) == IF self.kind = "Fixed" THEN Some(self.value) ELSE None

\* ContainerView::new
ContainerView_new(subview) ==
    [type |-> "ContainerView", subview |-> subview,
     padding_left |-> Fixed(Zero), padding_right |-> Fixed(Zero),
     padding_top |-> Fixed(Zero), padding_bottom |-> Fixed(Zero),
     spread_ratio_horizontal |-> Half, spread_ratio_vertical |-> Half,
     subview_size |-> None]

\* The closure padding of ContainerView::padding.
PaddingOf(p, spread_ratio, view_length, remaining_length) ==
    CASE p.kind = "Fixed" -> p.value
      [] p.kind = "RatioOfViewSize" -> FMul(p.value, view_length)
      [] p.kind = "Spread" -> FMul(spread_ratio, remaining_length)

\* ContainerView::padding: <<leading, trailing>>.
padding(padding_leading, padding_trailing, spread_ratio, view_length, remaining_length) ==
    IF padding_leading.kind = "Spread" /\ padding_trailing.kind = "Spread"
    THEN <<FMul(spread_ratio, remaining_length), FMul(spread_ratio, remaining_length)>>
    ELSE IF padding_trailing.kind = "Spread"
    THEN LET l == PaddingOf(padding_leading, spread_ratio, view_length, remaining_length)
         IN  <<l, FSub(remaining_length, l)>>
    ELSE IF padding_leading.kind = "Spread"
    THEN LET t == PaddingOf(padding_trailing, spread_ratio, view_length, remaining_length)
         IN  <<FSub(remaining_length, t), t>>
    ELSE <<PaddingOf(padding_leading, spread_ratio, view_length, remaining_length),
           PaddingOf(padding_trailing, spread_ratio, view_length, remaining_length)>>

\* ContainerView::preferred_size: the value returned.
ContainerView_preferred_size(self) ==
    LET h == padding(self.padding_left, self.padding_right, self.spread_ratio_horizontal,
                     self.subview.width, INFINITY)
        v == padding(self.padding_top, self.padding_bottom, self.spread_ratio_vertical,
                     self.subview.height, INFINITY)
    IN  RectSize(FAdd(FAdd(h[1], self.subview.width), h[2]),
                 FAdd(FAdd(v[1], self.subview.height), v[2]))

\* ContainerView::apply_bounds: the paddings it resolves, the size it clamps the subview
\* to, and the bounds it hands to the subview.
ContainerView_apply_bounds(self, bounds) ==
    LET requested_size == UnwrapOr(self.subview_size, self.subview)
        max_subview_size ==
            RectSizeMax(RectSize(FSub(FSub(bounds.size.width,
                                           UnwrapOr(as_fixed(self.padding_left), Zero)),
                                      UnwrapOr(as_fixed(self.padding_right), Zero)),
                                 FSub(FSub(bounds.size.height,
                                           UnwrapOr(as_fixed(self.padding_top), Zero)),
                                      UnwrapOr(as_fixed(self.padding_bottom), Zero))),
                        RectSize(Zero, Zero))
        subview_size == RectSizeMin(requested_size, max_subview_size)
        h == padding(self.padding_left, self.padding_right, self.spread_ratio_horizontal,
                     subview_size.width,
                     FMax(FSub(bounds.size.width, subview_size.width), Zero))
        v == padding(self.padding_top, self.padding_bottom, self.spread_ratio_vertical,
                     subview_size.height,
                     FMax(FSub(bounds.size.height, subview_size.height), Zero))
        padded_size == RectSize(FAdd(FAdd(h[1], subview_size.width), h[2]),
                                FAdd(FAdd(v[1], subview_size.height), v[2]))
        squeeze_horizontal == Squeeze(bounds.size.width, padded_size.width)
        squeeze_vertical == Squeeze(bounds.size.height, padded_size.height)
        x_min == FAdd(bounds.origin.x, h[1])
        y_min == FAdd(bounds.origin.y, v[1])
        width == FMul(subview_size.width, squeeze_horizontal)
        height == FMul(subview_size.height, squeeze_vertical)
        bounds_x_max == FAdd(bounds.origin.x, bounds.size.width)
        bounds_y_max == FAdd(bounds.origin.y, bounds.size.height)
    IN  [padding_left |-> h[1], padding_right |-> h[2],
         padding_top |-> v[1], padding_bottom |-> v[2],
         subview_size |-> subview_size,
         subview_bounds |->
             from_scalars(x_min, y_min,
                          IF FLt(bounds_x_max, FAdd(x_min, width))
                          THEN FMax(FSub(bounds_x_max, x_min), Zero)
                          ELSE width,
                          IF FLt(bounds_y_max, FAdd(y_min, height))
                          THEN FMax(FSub(bounds_y_max, y_min), Zero)
                          ELSE height)]

\* ------------------------------------------------------------ the layout pass

\* The preferred sizes the leaf views report.
SubviewSizes ==
    {RectSize(FromInt(0), FromInt(0)), RectSize(FromInt(1), FromInt(2)),
     RectSize(FromInt(2), FromInt(1)), RectSize(FromInt(3), FromInt(3))}

\* The lists of at most MaxSubviews subviews.
SubviewLists == UNION {[1 .. n -> SubviewSizes] : n \in 0 .. MaxSubviews}

Alignments == {Center, Leading, Trailing, Ratio(F32(3, 2))}

FixedPaddings == {None, Some(One)}

ContainerPaddings == {Fixed(One), RatioOfViewSize(Half), Spread}

SpreadRatios == {Half, F32(1, 4)}

\* The bounds a parent hands down: some smaller than what the views prefer, some larger.
LayoutLengths == {0, 2, 5, 8}

LayoutBounds ==
    {from_scalars(FromInt(1), FromInt(2), FromInt(w), FromInt(h)) : w, h \in LayoutLengths}

\* A layout call leaves the router alone.
LayoutCall == UNCHANGED router_vars

\* LayoutPass::stack: a StackBuilder over an empty Stack.
LayoutPassStack(axis) ==
    /\ view = None
    /\ view' = Some(Stack_new(axis))
    /\ UNCHANGED <<measured, applied>>
    /\ LayoutCall

\* StackBuilder::subview
BuilderSubview(subview_size) ==
    /\ view # None
    /\ Unwrap(view).type = "StackBuilder"
    /\ Len(Unwrap(view).subviews) < MaxSubviews
    /\ view' = Some(Stack_subview(Unwrap(view), subview_size))
    /\ UNCHANGED <<measured, applied>>
    /\ LayoutCall

\* StackBuilder::finish
BuilderFinish ==
    /\ view # None
    /\ Unwrap(view).type = "StackBuilder"
    /\ view' = Some([Unwrap(view) EXCEPT !.type = "Stack"])
    /\ UNCHANGED <<measured, applied>>
    /\ LayoutCall

\* StackView::new, ZStackView::new, ContainerView::new
NewStackView(axis, subviews) ==
    /\ view = None
    /\ view' = Some(StackView_new(axis, subviews))
    /\ UNCHANGED <<measured, applied>>
    /\ LayoutCall

NewZStackView(subviews) ==
    /\ view = None
    /\ view' = Some(ZStackView_new(subviews))
    /\ UNCHANGED <<measured, applied>>
    /\ LayoutCall

NewContainerView(subview) ==
    /\ view = None
    /\ view' = Some(ContainerView_new(subview))
    /\ UNCHANGED <<measured, applied>>
    /\ LayoutCall

\* The setters, called while the view is set up, before it is measured.
SetField(types, field, value) ==
    /\ view # None
    /\ Unwrap(view).type \in types
    /\ measured = None
    /\ view' = Some([Unwrap(view) EXCEPT ![field] = value])
    /\ UNCHANGED <<measured, applied>>
    /\ LayoutCall

\* set_alignment, set_padding_type, set_fixed_padding of StackBuilder and of StackView
SetAlignment(alignment) == SetField({"StackBuilder", "StackView"}, "alignment", alignment)

SetPaddingType(padding_type) ==
    SetField({"StackBuilder", "StackView"}, "padding_type", padding_type)

SetFixedPadding(fixed_padding) ==
    SetField({"StackBuilder", "StackView"}, "fixed_padding", fixed_padding)

\* ZStackView::set_alignment_horizontal, set_alignment_vertical
SetAlignmentHorizontal(alignment) == SetField({"ZStackView"}, "alignment_horizontal", alignment)

SetAlignmentVertical(alignment) == SetField({"ZStackView"}, "alignment_vertical", alignment)

\* ContainerView::set_padding_left, ..., set_spread_ratio_horizontal, set_spread_ratio_vertical
ContainerEdges == {"padding_left", "padding_right", "padding_top", "padding_bottom"}

SetPadding(edge, p) == SetField({"ContainerView"}, edge, p)

SetSpreadRatio(field, r) == SetField({"ContainerView"}, field, r)

\* View::preferred_size of the view: what it returns, and the view with its caches.
PreferredSizeOf(self) ==
    CASE self.type = "Stack" -> [view |-> self, size |-> Stack_preferred_size(self)]
      [] self.type = "StackView" ->
           LET after == StackView_preferred_size(self) IN [view |-> after, size |-> after.size]
      [] self.type = "ZStackView" ->
           LET after == ZStackView_preferred_size(self)
           IN  [view |-> after, size |-> Unwrap(after.size)]
      [] self.type = "ContainerView" ->
           [view |-> [self EXCEPT !.subview_size = Some(self.subview)],
            size |-> ContainerView_preferred_size(self)]

\* View::apply_bounds of the view: the bounds it hands to its subviews, in order.
SubviewBoundsOf(self, bounds) ==
    CASE self.type = "Stack" -> Stack_apply_bounds(self, bounds)
      [] self.type = "StackView" -> StackView_apply_bounds(self, bounds)
      [] self.type = "ZStackView" -> ZStackView_apply_bounds(self, bounds)
      [] self.type = "ContainerView" ->
           <<ContainerView_apply_bounds(self, bounds).subview_bounds>>

\* Whether View::apply_bounds of the view logs that the number of subviews has changed.
WarnsOf(self) ==
    CASE self.type = "StackView" -> StackView_warns(self)
      [] self.type = "ZStackView" -> ZStackView_warns(self)
      [] OTHER -> FALSE

\* The subviews a ViewList can have after one of them went away or one more came.
ChangedLists(subviews) ==
    {SubSeq(subviews, 1, Len(subviews) - 1) : n \in {Len(subviews)} \ {0}}
    \cup {Append(subviews, RectSize(FromInt(1), FromInt(2))) :
             n \in {Len(subviews)} \ {MaxSubviews}}

\* Between the two phases the application adds a subview to the ViewList of a StackView or
\* a ZStackView, or takes one away.
SubviewsChange ==
    /\ view # None
    /\ Unwrap(view).type \in {"StackView", "ZStackView"}
    /\ measured # None
    /\ applied = None
    /\ Unwrap(view).subviews = Unwrap(view).subview_sizes
    /\ \E subviews \in ChangedLists(Unwrap(view).subviews) :
          view' = Some([Unwrap(view) EXCEPT !.subviews = subviews])
    /\ UNCHANGED <<measured, applied>>
    /\ LayoutCall

\* The first phase of the layout: the parent asks the view for its preferred size.
PreferredSize ==
    /\ view # None
    /\ Unwrap(view).type # "StackBuilder"
    /\ measured = None
    /\ \E r \in {PreferredSizeOf(Unwrap(view))} :
          /\ view' = Some(r.view)
          /\ measured' = Some(r.size)
    /\ UNCHANGED applied
    /\ LayoutCall

\* The second phase: the parent hands the view its bounds.
ApplyBounds(bounds) ==
    /\ measured # None
    /\ applied = None
    /\ applied' = Some([bounds |-> bounds,
                        subviews |-> SubviewBoundsOf(Unwrap(view), bounds),
                        warned |-> WarnsOf(Unwrap(view))])
    /\ UNCHANGED <<view, measured>>
    /\ LayoutCall

NextLayout ==
    \/ \E axis \in Axes : LayoutPassStack(axis)
    \/ \E subview_size \in SubviewSizes : BuilderSubview(subview_size)
    \/ BuilderFinish
    \/ \E axis \in Axes, subviews \in SubviewLists : NewStackView(axis, subviews)
    \/ \E subviews \in SubviewLists : NewZStackView(subviews)
    \/ \E subview \in SubviewSizes : NewContainerView(subview)
    \/ \E alignment \in Alignments : SetAlignment(alignment)
    \/ \E padding_type \in StackPaddingTypes : SetPaddingType(padding_type)
    \/ \E fixed_padding \in FixedPaddings : SetFixedPadding(fixed_padding)
    \/ \E alignment \in Alignments : SetAlignmentHorizontal(alignment)
    \/ \E alignment \in Alignments : SetAlignmentVertical(alignment)
    \/ \E edge \in ContainerEdges, p \in ContainerPaddings : SetPadding(edge, p)
    \/ \E field \in {"spread_ratio_horizontal", "spread_ratio_vertical"}, r \in SpreadRatios :
          SetSpreadRatio(field, r)
    \/ PreferredSize
    \/ SubviewsChange
    \/ \E bounds \in LayoutBounds : ApplyBounds(bounds)

SpecLayout == Init /\ [][NextLayout]_vars

\* -------------------------------------------------------------- the claims

ButtonSlots == 0 .. NumButtons - 1

\* The button window_event stores in slot i of button_states.
ButtonOf(i) == CHOOSE button \in MouseButtons \ {"Other"} : ButtonIndex(button) = i

BoundsOf(ls, index) == Unwrap(ls[index + 1]).bounds

StatesOf(ls, index) == Unwrap(ls[index + 1]).button_states

\* Whether the cursor is known and within the bounds of the live listener index.
CursorInside(position, ls, index) ==
    /\ position # None
    /\ IsLive(ls, index)
    /\ Contains(BoundsOf(ls, index), Unwrap(position))

\* The callbacks with this tag that calls holds for listener index.
Tagged(calls, index, tag) ==
    {k \in DOMAIN calls : calls[k].listener = index /\ calls[k].event.kind.tag = tag}

\* C1, as the specification states it: for a press that starts while the cursor is
\* outside a listener's bounds, the listener receives no ButtonDown at any scan between
\* the press and the release, also when the cursor is moved into the bounds while the
\* button is held.
C1_NoButtonDownForPressOutside ==
    \A k \in DOMAIN delivered :
        delivered[k].event.kind.tag = "ButtonDown"
            => <<delivered[k].listener, delivered[k].i>> \notin press_outside

\* C1, amended: for a press that starts while the cursor is outside a listener's bounds,
\* the listener receives no ButtonDown while the cursor is outside its bounds; once the
\* cursor is within the bounds with the button still held the listener has received a
\* ButtonDown for the press, and that ButtonDown carries started_inside = false.
C1_ButtonDownOnEntry ==
    /\ \A k \in DOMAIN delivered :
          delivered[k].event.kind.tag = "ButtonDown"
              => /\ CursorInside(cursor_position, listeners, delivered[k].listener)
                 /\ <<delivered[k].listener, delivered[k].i>> \in press_outside
                        => ~delivered[k].event.kind.started_inside
    /\ \A p \in press_outside :
          CursorInside(cursor_position, listeners, p[1]) => StatesOf(listeners, p[1])[p[2]]

\* C1's case: a ButtonDown delivered for a press that started outside the bounds.
C1_Witness ==
    \E k \in DOMAIN delivered :
        /\ delivered[k].event.kind.tag = "ButtonDown"
        /\ <<delivered[k].listener, delivered[k].i>> \in press_outside
        /\ ~delivered[k].event.kind.started_inside

\* C2: after a press that started outside a listener's bounds and a drag of the cursor
\* into the bounds while held, the release of the button with the cursor inside the
\* bounds delivers ButtonUp{button, inside = true} to the listener, button being the
\* button released.
C2_ButtonUpAfterDragInside ==
    [][\A p \in press_outside :
          (/\ button_states[p[2]]
           /\ ~button_states'[p[2]]
           /\ CursorInside(cursor_position, listeners, p[1])
           /\ CursorInside(cursor_position', listeners', p[1]))
          => \E k \in Tagged(delivered', p[1], "ButtonUp") :
                /\ delivered'[k].event.kind.button = ButtonOf(p[2])
                /\ delivered'[k].event.kind.inside]_vars

\* C3: once a ListenerHandle has been dropped, no window event delivered after the drop
\* makes a callback to the listener of the handle's index.
C3_NoCallbackAfterDrop ==
    [][\A k \in DOMAIN delivered' : delivered'[k].listener \notin dropped]_vars

\* C3's case: a window event with a known cursor and a pressed button has been scanned
\* after the drop of a handle, and the listener of the handle is removed.
C3_Witness ==
    \E index \in dropped :
        /\ index < Len(listeners)
        /\ ~IsLive(listeners, index)
        /\ cursor_position # None
        /\ button_states[0]
        /\ delivered = << >>

\* C4: a live listener receives exactly one HoveringStart in a scan where the
\* containment of the cursor in its bounds has changed from false to true since its
\* previous scan, exactly one HoveringFinish in a scan where it has changed from true to
\* false, and neither where it has not changed (a listener not scanned yet counts as
\* not containing the cursor).
C4_HoveringOnChange ==
    [][\A index \in LiveIndices(listeners') :
          /\ Cardinality(Tagged(delivered', index, "HoveringStart"))
                = IF index \notin was_inside /\ index \in was_inside' THEN 1 ELSE 0
          /\ Cardinality(Tagged(delivered', index, "HoveringFinish"))
                = IF index \in was_inside /\ index \notin was_inside' THEN 1 ELSE 0]_vars

\* C4's case: the cursor has left the bounds of a listener and the scan has delivered
\* HoveringFinish to it.
C4_Witness ==
    \E k \in DOMAIN delivered :
        /\ delivered[k].event.kind.tag = "HoveringFinish"
        /\ cursor_position # None
        /\ IsLive(listeners, delivered[k].listener)
        /\ delivered[k].listener \notin was_inside

\* C5: when a button is pressed while the cursor is inside a listener's bounds and the
\* listener is already hovered, the listener receives ButtonDown for that button with
\* started_inside = true.
C5_ButtonDownStartedInside ==
    [][\A index \in LiveIndices(listeners) \cap LiveIndices(listeners'), i \in ButtonSlots :
          (/\ ~button_states[i]
           /\ button_states'[i]
           /\ Unwrap(listeners[index + 1]).is_hovered
           /\ CursorInside(cursor_position', listeners', index))
          => \E k \in Tagged(delivered', index, "ButtonDown") :
                /\ delivered'[k].event.kind.button = ButtonOf(i)
                /\ delivered'[k].event.kind.started_inside]_vars

\* C6: after a listener has received ButtonDown for a button, the release of that button
\* with the cursor at a known position delivers exactly one ButtonUp for that button to
\* the listener, with inside = whether the bounds contain the cursor at that scan.
C6_OneButtonUpOnRelease ==
    [][\A index \in LiveIndices(listeners) \cap LiveIndices(listeners'), i \in ButtonSlots :
          (/\ button_states[i]
           /\ ~button_states'[i]
           /\ StatesOf(listeners, index)[i]
           /\ cursor_position' # None)
          => \E k \in Tagged(delivered', index, "ButtonUp") :
                /\ delivered'[k].event.kind.button = ButtonOf(i)
                /\ delivered'[k].event.kind.inside = CursorInside(cursor_position', listeners', index)
                /\ \A j \in Tagged(delivered', index, "ButtonUp") :
                      delivered'[j].event.kind.button = ButtonOf(i) => j = k]_vars

\* C7: the button named in a ButtonDown or ButtonUp is the button whose MouseInput
\* window_event stores in the slot of button_states the scan fires the callback for.
C7_ButtonNamedIsButtonStored ==
    \A k \in DOMAIN delivered :
        delivered[k].i \in ButtonSlots
            => ButtonIndex(delivered[k].event.kind.button) = delivered[k].i

\* C8: no callback runs while the scan holds the mutex of the deregister set or of the
\* bounds-update map, and the thread never waits for a mutex it holds: a callback that
\* drops a ListenerHandle or calls ListenerHandle::update_bounds completes.
C8_CallbacksRunWithoutDispatchLocks ==
    /\ blocked = ""
    /\ \A k \in DOMAIN delivered :
          delivered[k].held \cap {"deregisters", "bounds_updates"} = {}

\* C8's case: a callback to a listener, made with the main mutex held, has dropped the
\* handle of that listener and completed.
C8_Witness ==
    \E k \in DOMAIN delivered :
        /\ "inner" \in delivered[k].held
        /\ delivered[k].listener \in deregisters
        /\ blocked = ""

\* C9: while the cursor position is unknown a call makes no callback and window_event
\* returns false; CursorLeft delivers no HoveringFinish to a hovered listener.
C9_UnknownCursorNoCallback ==
    cursor_position = None => delivered = << >> /\ ~returned

\* C9's case: the cursor has left while a live listener was hovered.
C9_Witness ==
    /\ cursor_position = None
    /\ \E index \in LiveIndices(listeners) : Unwrap(listeners[index + 1]).is_hovered

\* C10: ListenerHandle::update_bounds leaves the listeners as they are; the bounds of a
\* listener change only in a scan, and after a scan they are the bounds of the most
\* recent update_bounds call for the listener made before the scan, if there was one.
C10_BoundsChangeOnlyInScan ==
    [][/\ \A index \in 0 .. MaxListeners - 1, bounds \in BoundsChoices :
             HandleUpdateBounds(index, bounds) => listeners' = listeners
       /\ \A index \in LiveIndices(listeners) \cap LiveIndices(listeners') :
             BoundsOf(listeners', index)
                = IF scanned' /\ index \in DOMAIN requested
                  THEN requested[index]
                  ELSE BoundsOf(listeners, index)]_vars

\* C10's case: update_bounds has been called with bounds other than the listener's, and
\* the listener still has its bounds.
C10_Witness ==
    \E index \in LiveIndices(listeners) \cap DOMAIN requested :
        /\ index \in DOMAIN bounds_updates
        /\ bounds_updates[index] = requested[index]
        /\ requested[index] # BoundsOf(listeners, index)

\* C11: a window event of a type other than ScaleFactorChanged, CursorMoved, CursorLeft,
\* MouseInput and RedrawRequested leaves the cursor position, the scale factor, the
\* button array, the listeners and both pending queues as they are, makes no callback
\* and returns false.
C11_OtherEventsChangeNothing ==
    [][\A event \in {e \in WindowEvents : e.type \notin ArmTypes} :
          WindowEvent(event)
              => /\ UNCHANGED <<cursor_position, scale_factor, button_states, listeners,
                               deregisters, bounds_updates>>
                 /\ delivered' = << >>
                 /\ ~returned']_vars

\* C11's case: such an event has been handled while a deregistration and a bounds
\* update were pending, the cursor was known and within the bounds of a listener.
C11_Witness ==
    /\ skipped
    /\ deregisters # {}
    /\ bounds_updates # << >>
    /\ \E index \in LiveIndices(listeners) : CursorInside(cursor_position, listeners, index)

\* C12, as the specification states it: RedrawRequested changes neither the cursor
\* position, the scale factor nor the button array; after it returns the pending
\* deregister set and the pending bounds-update map are both empty and every listener
\* whose index was pending deregistration is tombstoned.
C12_RedrawLeavesQueuesEmpty ==
    [][redrawn'
          => /\ UNCHANGED <<cursor_position, scale_factor, button_states>>
             /\ deregisters' = {}
             /\ bounds_updates' = << >>
             /\ \A index \in deregisters : ~IsLive(listeners', index)]_vars

\* C12, amended: RedrawRequested changes neither the cursor position, the scale factor
\* nor the button array; every listener whose index was pending deregistration when the
\* event arrived is tombstoned and every bounds update pending then is applied to its
\* live listener; after it returns the deregister set holds only indices of handles
\* dropped by a callback of this scan, and both queues are empty if the scan made no
\* callback.
C12_RedrawFlushesWhatWasPending ==
    [][redrawn'
          => /\ UNCHANGED <<cursor_position, scale_factor, button_states>>
             /\ \A index \in deregisters : ~IsLive(listeners', index)
             /\ \A index \in DOMAIN bounds_updates \cap LiveIndices(listeners') :
                   BoundsOf(listeners', index) = bounds_updates[index]
             /\ deregisters' \subseteq dropped' \ dropped
             /\ delivered' = << >> => deregisters' = {} /\ bounds_updates' = << >>]_vars

\* C12's case: the scan of a RedrawRequested has tombstoned the listener of a dropped
\* handle, with the cursor known, and both queues are empty.
C12_Witness ==
    /\ redrawn
    /\ delivered = << >>
    /\ deregisters = {}
    /\ bounds_updates = << >>
    /\ cursor_position # None
    /\ \E index \in dropped : index < Len(listeners) /\ ~IsLive(listeners, index)

\* C13: window_event returns true if and only if the scan of the event made at least one
\* callback; it returns false when it made none, also when the scan applied
\* deregistrations or bounds updates.
C13_ReturnsTrueIffCallback ==
    returned <=> delivered # << >>

\* C13's case: a window event has released a button over a listener that was pressed,
\* the listener received ButtonUp alone and window_event returned true.
C13_Witness ==
    /\ scanned
    /\ returned
    /\ Len(delivered) = 1
    /\ delivered[1].event.kind.tag = "ButtonUp"

\* The pending deregistrations and bounds updates whose listener is live.
LiveDeregisters == {index \in deregisters : IsLive(listeners, index)}

LiveUpdates ==
    [index \in {i \in DOMAIN bounds_updates : IsLive(listeners, i)} |-> bounds_updates[index]]

\* C14: a handle operation whose target is gone is a silent no-op. Dropping a handle or
\* calling update_bounds completes and leaves the listeners as they are; once the router
\* is destroyed it leaves the queues as they are too; and a pending deregistration or
\* bounds update of a tombstoned listener changes nothing in a scan: the scan gives the
\* listeners and the callbacks it gives without these entries.
C14_GoneTargetsAreNoOps ==
    /\ [](alive => ScanEvents(cursor_position, listeners, button_states, deregisters,
                              bounds_updates, {"inner"})
                   = ScanEvents(cursor_position, listeners, button_states, LiveDeregisters,
                                LiveUpdates, {"inner"}))
    /\ [][\A index \in 0 .. MaxRegistered - 1 :
             (\/ DropHandle(index)
              \/ \E bounds \in BoundsChoices : HandleUpdateBounds(index, bounds))
             => /\ listeners' = listeners
                /\ blocked' = ""
                /\ ~alive => UNCHANGED <<deregisters, bounds_updates>>]_vars

\* C14's case: the router is destroyed; the last handle of a listener it still held was
\* dropped after that, and a clone of the handle of a tombstoned listener was dropped
\* while the router existed.
C14_Witness ==
    /\ ~alive
    /\ \E index \in LiveIndices(listeners) : handles[index + 1] = 0 /\ index \notin deregisters
    /\ \E index \in deregisters : index < Len(listeners) /\ ~IsLive(listeners, index)

\* C15: register_listener returns an index distinct from every index it returned before,
\* also after listeners were removed: a tombstoned slot stays tombstoned and is never given
\* out again, so a listener is tombstoned, or its bounds are replaced, only through a
\* pending entry under its own index, never through the entry of an older handle.
C15_IndicesAreNeverReused ==
    /\ [](/\ Len(issued) = Len(listeners)
          /\ \A j, k \in DOMAIN issued : j # k => issued[j] # issued[k])
    /\ [][/\ \A k \in DOMAIN listeners : k \in DOMAIN listeners'
          /\ \A k \in DOMAIN listeners : listeners[k] = None => listeners'[k] = None
          /\ \A index \in LiveIndices(listeners) :
                /\ listeners'[index + 1] = None
                      => index \in deregisters /\ index \in dropped
                /\ (listeners'[index + 1] # None
                    /\ BoundsOf(listeners', index) # BoundsOf(listeners, index))
                      => index \in DOMAIN bounds_updates]_vars

\* C15 witness: a second listener is registered after the first was removed, it got the
\* index 1, slot 0 is tombstoned and a stale handle of slot 0 has an entry pending.
C15_Witness ==
    /\ issued = <<0, 1>>
    /\ listeners[1] = None
    /\ IsLive(listeners, 1)
    /\ 0 \in deregisters \/ 0 \in DOMAIN bounds_updates

\* The calls among the first n of calls that are button events for listener index and button.
ButtonEventsBefore(calls, n, index, button) ==
    {at \in 1 .. n :
        /\ calls[at].listener = index
        /\ calls[at].event.kind.tag \in {"ButtonDown", "ButtonUp"}
        /\ calls[at].event.kind.button = button}

\* The tag of the last button event for the listener and button of calls[at] that was
\* delivered before calls[at]: in this window_event if there is one, before it otherwise.
LastTagBefore(calls, at, sent) ==
    LET call == calls[at]
        earlier == ButtonEventsBefore(calls, at - 1, call.listener, call.event.kind.button)
    IN  IF earlier # {}
        THEN calls[CHOOSE e \in earlier : \A o \in earlier : o <= e].event.kind.tag
        ELSE IF <<call.listener, call.event.kind.button>> \in sent
        THEN "ButtonDown"
        ELSE "ButtonUp"

\* C24: the ButtonDown and ButtonUp events delivered to one live listener for one button
\* alternate and start with ButtonDown: a ButtonUp comes only after a ButtonDown with no
\* ButtonUp in between, and a ButtonDown never after a ButtonDown without a ButtonUp in
\* between.
C24_ButtonDownAndUpAlternate ==
    [][\A at \in DOMAIN delivered' :
          delivered'[at].event.kind.tag \in {"ButtonDown", "ButtonUp"}
          => LastTagBefore(delivered', at, sent_down) # delivered'[at].event.kind.tag]_vars

\* C24 witness: a live listener gets the ButtonUp of a button, after which no ButtonDown
\* of that button is outstanding for it.
C24_Witness ==
    \E at \in DOMAIN delivered :
        /\ delivered[at].event.kind.tag = "ButtonUp"
        /\ IsLive(listeners, delivered[at].listener)
        /\ <<delivered[at].listener, delivered[at].event.kind.button>> \notin sent_down

\* C25: at the end of every scan that runs with a known cursor position, every live
\* listener has is_hovered equal to bounds.contains(cursor), has no button pressed that is
\* not pressed globally, and has every button pressed that is pressed globally while the
\* cursor is inside its bounds.
C25_ScanEndsConsistent ==
    scanned /\ cursor_position # None
    => \A index \in LiveIndices(listeners) :
          LET listener == Unwrap(listeners[index + 1])
              inside == Contains(listener.bounds, Unwrap(cursor_position))
          IN  /\ listener.is_hovered = inside
              /\ \A i \in ButtonSlots :
                    /\ listener.button_states[i] => button_states[i]
                    /\ button_states[i] /\ inside => listener.button_states[i]

\* C25 witness: a scan with a known cursor has just ended, and a live listener that holds
\* the cursor has a button pressed.
C25_Witness ==
    /\ scanned
    /\ cursor_position # None
    /\ \E index \in LiveIndices(listeners), i \in ButtonSlots :
          /\ CursorInside(cursor_position, listeners, index)
          /\ button_states[i]
          /\ StatesOf(listeners, index)[i]

\* The listener index was live and hovered before the step and is live after it.
StaysHovered(index) ==
    /\ index \in LiveIndices(listeners)
    /\ index \in LiveIndices(listeners')
    /\ Unwrap(listeners[index + 1]).is_hovered

\* C26: a listener that is hovered when CursorLeft arrives keeps its hover flag for as
\* long as the cursor position is unknown, and no HoveringFinish is delivered meanwhile;
\* when the cursor comes back at a position within the listener's bounds no HoveringStart
\* is delivered to it, and when it comes back outside the bounds the HoveringFinish is
\* delivered at that scan.
C26_HoverFlagOutlivesCursorLeft ==
    [][\A index \in LiveIndices(listeners) :
          StaysHovered(index)
          => /\ cursor_position' = None
                => /\ Unwrap(listeners'[index + 1]).is_hovered
                   /\ Tagged(delivered', index, "HoveringFinish") = {}
             /\ (cursor_position = None /\ cursor_position' # None)
                => IF CursorInside(cursor_position', listeners', index)
                   THEN /\ Tagged(delivered', index, "HoveringStart") = {}
                        /\ Tagged(delivered', index, "HoveringFinish") = {}
                        /\ Unwrap(listeners'[index + 1]).is_hovered
                   ELSE /\ Cardinality(Tagged(delivered', index, "HoveringFinish")) = 1
                        /\ ~Unwrap(listeners'[index + 1]).is_hovered]_vars

\* C26 witness: the cursor has come back outside the bounds of a listener that stayed
\* hovered while the position was unknown, and the HoveringFinish has just been delivered.
C26_Witness ==
    /\ scanned
    /\ cursor_position # None
    /\ \E index \in LiveIndices(listeners) :
          /\ cursor_returned
          /\ ~CursorInside(cursor_position, listeners, index)
          /\ Tagged(delivered, index, "HoveringFinish") # {}

\* The ButtonUp callbacks of calls for button slot i of listener index.
ButtonUps(calls, index, i) ==
    {k \in Tagged(calls, index, "ButtonUp") : calls[k].i = i}

\* The listener index is live before and after the step and has slot i pressed before it.
StaysPressed(index, i) ==
    /\ index \in LiveIndices(listeners)
    /\ index \in LiveIndices(listeners')
    /\ StatesOf(listeners, index)[i]

\* C27: while the cursor position is unknown a listener's pressed button stays pressed
\* and no ButtonUp is delivered, whether or not the button is released meanwhile; at the
\* scan that makes the position known again a button that is released by then gets its
\* one ButtonUp, with inside computed from the new position.
C27_ButtonUpWaitsForTheCursor ==
    [][\A index \in LiveIndices(listeners), i \in ButtonSlots :
          StaysPressed(index, i)
          => /\ cursor_position' = None
                => /\ StatesOf(listeners', index)[i]
                   /\ Tagged(delivered', index, "ButtonUp") = {}
             /\ (cursor_position = None /\ cursor_position' # None /\ ~button_states'[i])
                => /\ Cardinality(ButtonUps(delivered', index, i)) = 1
                   /\ \A k \in ButtonUps(delivered', index, i) :
                         /\ delivered'[k].event.kind.inside
                                = CursorInside(cursor_position', listeners', index)
                         /\ delivered'[k].event.cursor_position = Unwrap(cursor_position')
                   /\ ~StatesOf(listeners', index)[i]]_vars

\* C27 witness: the cursor has come back outside the bounds of a listener whose button
\* was released while the position was unknown, and the ButtonUp with inside = false has
\* just been delivered.
C27_Witness ==
    /\ cursor_returned
    /\ \E index \in LiveIndices(listeners), i \in ButtonSlots :
          /\ ~CursorInside(cursor_position, listeners, index)
          /\ \E k \in ButtonUps(delivered, index, i) : ~delivered[k].event.kind.inside

\* The pending bounds updates of the listeners no handle of which has been dropped.
UpdatesOfKept ==
    [index \in {i \in DOMAIN bounds_updates : i \notin dropped} |-> bounds_updates[index]]

\* C28: the clones of a ListenerHandle share its index. While the router exists, dropping
\* any one of them puts the index into the deregister set; the next scan removes every
\* listener whose index is in the set, whether or not other clones of its handle are
\* alive; and a bounds update queued through a surviving clone after the drop changes
\* nothing: the scan gives the listeners and the callbacks it gives without that update.
C28_OneDroppedCloneRemovesTheListener ==
    /\ [][\A index \in 0 .. MaxRegistered - 1 :
             /\ (CloneHandle(index) \/ DropHandle(index))
                    => /\ Len(handles') = Len(handles)
                       /\ listeners' = listeners
             /\ (DropHandle(index) /\ alive) => index \in deregisters'
             /\ (scanned' /\ index \in deregisters) => ~IsLive(listeners', index)]_vars
    /\ [](alive => ScanEvents(cursor_position, listeners, button_states, deregisters,
                              bounds_updates, {"inner"})
                   = ScanEvents(cursor_position, listeners, button_states, deregisters,
                                UpdatesOfKept, {"inner"}))

\* C28 witness: a listener was removed by a scan after one clone of its handle was
\* dropped, another clone is alive, and a bounds update made through it is pending.
C28_Witness ==
    /\ alive
    /\ \E index \in dropped :
          /\ index < Len(listeners)
          /\ ~IsLive(listeners, index)
          /\ handles[index + 1] > 0
          /\ index \in DOMAIN bounds_updates

\* The indices a handle of which the step drops.
DroppedInStep == {j \in 0 .. Len(handles) - 1 : handles'[j + 1] < handles[j + 1]}

\* The bounds the scan of the step works with for the live listener j: those of the
\* update that was pending before the step if there was one, else the listener's own.
ScanBounds(j) ==
    IF j \in DOMAIN bounds_updates THEN bounds_updates[j] ELSE BoundsOf(listeners, j)

\* C29: a handle dropped, or a bounds update queued, in a callback of a scan does not
\* affect that scan. The scan makes the callbacks and leaves the listeners it makes and
\* leaves by the queues as they were when it began; a listener whose handle a callback
\* drops stays registered through the scan and gets its hovering event against the
\* bounds the scan began with, its index is in the deregister set afterwards, and the
\* update is pending afterwards; the scan after removes every listener of the set.
C29_CallbacksDoNotChangeTheirScan ==
    [][/\ (scanned' /\ called' \in {"drop", "update_bounds"})
          => /\ \E r \in {ScanEvents(cursor_position', listeners, button_states', deregisters,
                                      bounds_updates, {"inner"})} :
                   /\ delivered' = r.calls
                   /\ listeners' = r.listeners
             /\ \A j \in (IF called' = "drop" THEN DroppedInStep ELSE DOMAIN requested') :
                   /\ called' = "drop" => j \in deregisters'
                   /\ called' = "update_bounds"
                         => j \in DOMAIN bounds_updates' /\ bounds_updates'[j] = requested'[j]
                   /\ (IsLive(listeners, j) /\ j \notin deregisters)
                         => /\ IsLive(listeners', j)
                            /\ BoundsOf(listeners', j) = ScanBounds(j)
                            /\ (Tagged(delivered', j, "HoveringStart") # {})
                                  = (/\ Contains(ScanBounds(j), Unwrap(cursor_position'))
                                     /\ ~Unwrap(listeners[j + 1]).is_hovered)
       /\ \A j \in deregisters : scanned' => ~IsLive(listeners', j)]_vars

\* C29 witness: in a scan the callback of listener 0 came first and a callback dropped
\* the handle of listener 1; listener 1 got its HoveringStart in that scan all the same,
\* is still registered, and its index waits in the deregister set.
C29_Witness ==
    /\ scanned
    /\ called = "drop"
    /\ delivered # << >>
    /\ delivered[1].listener = 0
    /\ Tagged(delivered, 1, "HoveringStart") # {}
    /\ IsLive(listeners, 1)
    /\ handles[2] = 0
    /\ 1 \in deregisters

IsStack ==
    /\ view # None
    /\ Unwrap(view).type \in {"Stack", "StackView"}
    /\ Unwrap(view).type = "StackView" /\ measured # None
       => Unwrap(view).subviews = Unwrap(view).subview_sizes

\* The sum of the lengths of the subviews along the axis, and the largest across it.
RECURSIVE SumAlphas(_, _)
SumAlphas(sizes, axis) ==
    IF sizes = << >> THEN Zero
    ELSE FAdd(alpha(Head(sizes), axis), SumAlphas(Tail(sizes), axis))

RECURSIVE MaxBetas(_, _)
MaxBetas(sizes, axis) ==
    IF sizes = << >> THEN Zero
    ELSE FMax(beta(Head(sizes), axis), MaxBetas(Tail(sizes), axis))

\* The preferred size of a stack with count paddings.
PreferredWith(self, count) ==
    new_on_axis(self.axis,
                FAdd(SumAlphas(self.subviews, self.axis),
                     FMul(FromInt(count), UnwrapOr(self.fixed_padding, Zero))),
                MaxBetas(self.subviews, self.axis))

\* C16 as stated: the preferred size of a stack of n subviews, n = 0 included, is the sum of
\* the subviews' alphas plus padding_count times the fixed padding (0 when flexible) along
\* the axis and the largest beta across it, padding_count being n - 1 for Interpadded and
\* n + 1 for Omnipadded.
C16_PreferredSizeCountsNMinusOne ==
    IsStack /\ measured # None
    => LET self == Unwrap(view)
           n == Len(self.subviews)
       IN  Unwrap(measured)
           = PreferredWith(self, IF self.padding_type = "Interpadded" THEN n - 1 ELSE n + 1)

\* C16 amended: the same, with padding_count 0 rather than -1 for an Interpadded stack
\* without subviews.
C16_PreferredSizeCountsPaddings ==
    IsStack /\ measured # None
    => LET self == Unwrap(view)
           n == Len(self.subviews)
       IN  Unwrap(measured)
           = PreferredWith(self, IF self.padding_type = "Omnipadded" THEN n + 1
                                 ELSE IF n = 0 THEN 0 ELSE n - 1)

\* C16 witness: an Interpadded stack without subviews and with a fixed padding of 1 was
\* measured, and its preferred size is 0 by 0.
C16_Witness ==
    /\ IsStack
    /\ Unwrap(view).subviews = << >>
    /\ Unwrap(view).padding_type = "Interpadded"
    /\ Unwrap(view).fixed_padding = Some(One)
    /\ measured = Some(RectSize(Zero, Zero))

\* The padding apply_bounds of the stack puts between subviews, and how many there are.
EffectivePadding(self, bounds) ==
    IF self.type = "Stack" THEN Stack_padding(self, bounds) ELSE StackView_padding(self, bounds)

PaddingCount(self) == n_paddings(Len(self.subviews), self.padding_type)

\* The sizes in a sequence of bounds.
SizesOf(subview_bounds) == [k \in DOMAIN subview_bounds |-> subview_bounds[k].size]

\* The alpha offsets of successive subviews never decrease.
OffsetsAscend(subview_bounds, axis) ==
    \A k \in 1 .. Len(subview_bounds) - 1 :
        FLe(a_min(subview_bounds[k], axis), a_min(subview_bounds[k + 1], axis))

\* A stack was laid out in bounds at least as long as it prefers.
LaidOutWithRoom ==
    /\ IsStack
    /\ applied # None
    /\ FLe(alpha(Unwrap(measured), Unwrap(view).axis),
           alpha(Unwrap(applied).bounds.size, Unwrap(view).axis))

\* C17 as stated: after apply_bounds with bounds.alpha >= preferred.alpha, for fixed as well
\* as flexible padding, the alpha extents of the subviews plus padding_count times the
\* effective padding add up to bounds.alpha, and the alpha offsets never decrease.
C17_ExtentsAndPaddingsFillBounds ==
    LaidOutWithRoom
    => LET self == Unwrap(view)
           bounds == Unwrap(applied).bounds
           subview_bounds == Unwrap(applied).subviews
       IN  /\ FAdd(SumAlphas(SizesOf(subview_bounds), self.axis),
                   FMul(FromInt(PaddingCount(self)), EffectivePadding(self, bounds)))
              = alpha(bounds.size, self.axis)
           /\ OffsetsAscend(subview_bounds, self.axis)

\* C17 amended: after apply_bounds with bounds.alpha >= preferred.alpha every subview gets
\* its preferred alpha and the alpha offsets never decrease; with flexible padding and at
\* least one padding the extents plus the paddings add up to bounds.alpha, with fixed
\* padding they add up to preferred.alpha, and without any padding the extents alone add up
\* to preferred.alpha.
C17_ExtentsAndPaddingsFillPreferredOrBounds ==
    LaidOutWithRoom
    => LET self == Unwrap(view)
           bounds == Unwrap(applied).bounds
           subview_bounds == Unwrap(applied).subviews
           extents == SumAlphas(SizesOf(subview_bounds), self.axis)
           paddings == FMul(FromInt(PaddingCount(self)), EffectivePadding(self, bounds))
       IN  /\ OffsetsAscend(subview_bounds, self.axis)
           /\ Len(subview_bounds) = Len(self.subviews)
           /\ \A k \in DOMAIN subview_bounds :
                 alpha(subview_bounds[k].size, self.axis) = alpha(self.subviews[k], self.axis)
           /\ IF PaddingCount(self) = 0
              THEN extents = alpha(Unwrap(measured), self.axis)
              ELSE FAdd(extents, paddings)
                   = IF self.fixed_padding = None
                     THEN alpha(bounds.size, self.axis)
                     ELSE alpha(Unwrap(measured), self.axis)

\* C17 witness: a stack of two subviews with flexible padding was laid out in bounds longer
\* than it prefers.
C17_Witness ==
    /\ LaidOutWithRoom
    /\ Len(Unwrap(view).subviews) = 2
    /\ Unwrap(view).fixed_padding = None
    /\ Unwrap(view).padding_type = "Omnipadded"
    /\ FLt(alpha(Unwrap(measured), Unwrap(view).axis),
           alpha(Unwrap(applied).bounds.size, Unwrap(view).axis))
    /\ FLt(Zero, alpha(Unwrap(measured), Unwrap(view).axis))

\* The bounds of LayoutBounds that differ from bounds only in an alpha that is not longer.
NotLonger(bounds, axis) ==
    {shorter \in LayoutBounds :
        /\ shorter.origin = bounds.origin
        /\ beta(shorter.size, axis) = beta(bounds.size, axis)
        /\ FLe(alpha(shorter.size, axis), alpha(bounds.size, axis))}

\* C18: for one stack, if bounds A and B differ only in that A.alpha <= B.alpha, the alpha
\* extent apply_bounds(A) assigns to a subview is at most the extent apply_bounds(B)
\* assigns to the same subview.
C18_ShorterBoundsNeverWidenASubview ==
    IsStack /\ applied # None
    => LET self == Unwrap(view)
           under_b == Unwrap(applied).subviews
       IN  \A a \in NotLonger(Unwrap(applied).bounds, self.axis) :
              LET under_a == SubviewBoundsOf(self, a)
              IN  /\ Len(under_a) = Len(under_b)
                  /\ \A k \in DOMAIN under_b :
                        FLe(alpha(under_a[k].size, self.axis), alpha(under_b[k].size, self.axis))

\* C18 witness: a stack of two subviews was laid out in bounds shorter than it prefers, and
\* in still shorter bounds its second subview gets strictly less.
C18_Witness ==
    /\ IsStack
    /\ applied # None
    /\ Len(Unwrap(view).subviews) = 2
    /\ FLt(alpha(Unwrap(applied).bounds.size, Unwrap(view).axis),
           alpha(Unwrap(measured), Unwrap(view).axis))
    /\ \E a \in NotLonger(Unwrap(applied).bounds, Unwrap(view).axis) :
          /\ FLt(Zero, alpha(a.size, Unwrap(view).axis))
          /\ FLt(alpha(SubviewBoundsOf(Unwrap(view), a)[2].size, Unwrap(view).axis),
                 alpha(Unwrap(applied).subviews[2].size, Unwrap(view).axis))

\* inner lies within outer on both axes.
Within(inner, outer) ==
    /\ FLe(outer.origin.x, inner.origin.x)
    /\ FLe(outer.origin.y, inner.origin.y)
    /\ FLe(FAdd(inner.origin.x, inner.size.width), FAdd(outer.origin.x, outer.size.width))
    /\ FLe(FAdd(inner.origin.y, inner.size.height), FAdd(outer.origin.y, outer.size.height))

\* The largest width and the largest height among sizes, 0 by 0 for none.
RECURSIVE PerAxisMax(_)
PerAxisMax(sizes) ==
    IF sizes = << >> THEN RectSize(Zero, Zero)
    ELSE LET rest == PerAxisMax(Tail(sizes))
         IN  RectSize(FMax(Head(sizes).width, rest.width), FMax(Head(sizes).height, rest.height))

IsZStack ==
    /\ view # None
    /\ Unwrap(view).type = "ZStackView"
    /\ measured # None => Unwrap(view).subviews = Unwrap(view).subview_sizes

\* C19: the preferred size of a z-stack is the per-axis maximum of its subviews' preferred
\* sizes, and after apply_bounds(bounds) the bounds of every subview lie within bounds on
\* both axes, for every horizontal and vertical alignment, Ratio(r) included, whether or
\* not bounds is smaller than the preferred size.
C19_ZStackSubviewsWithinBounds ==
    IsZStack /\ measured # None
    => /\ Unwrap(measured) = PerAxisMax(Unwrap(view).subviews)
       /\ applied # None
          => \A k \in DOMAIN Unwrap(applied).subviews :
                Within(Unwrap(applied).subviews[k], Unwrap(applied).bounds)

IsContainer == view # None /\ Unwrap(view).type = "ContainerView"

\* The two paddings and the subview length fill the available length, split by spread_ratio.
SpreadSplits(leading, trailing, spread_ratio, view_length, available) ==
    LET remaining == FSub(available, view_length)
    IN  /\ leading = FMul(spread_ratio, remaining)
        /\ trailing = FMul(FSub(One, spread_ratio), remaining)
        /\ FAdd(FAdd(leading, view_length), trailing) = available

\* C20: when both opposing edges of an axis of a container are Spread, the leading edge
\* gets spread_ratio times the remaining length and the trailing edge (1 - spread_ratio)
\* times it, the remaining length being the available length minus the subview's length,
\* so that the paddings and the subview length add up to the available length.
C20_SpreadEdgesSplitTheRemainder ==
    IsContainer /\ applied # None
    => LET self == Unwrap(view)
           bounds == Unwrap(applied).bounds
           r == ContainerView_apply_bounds(self, bounds)
       IN  /\ self.padding_left = Spread /\ self.padding_right = Spread
              => SpreadSplits(r.padding_left, r.padding_right, self.spread_ratio_horizontal,
                              r.subview_size.width, bounds.size.width)
           /\ self.padding_top = Spread /\ self.padding_bottom = Spread
              => SpreadSplits(r.padding_top, r.padding_bottom, self.spread_ratio_vertical,
                              r.subview_size.height, bounds.size.height)

\* What an edge padding adds to the preferred length of a container: a Fixed padding its
\* value, a RatioOfViewSize padding its share of the subview's length, a Spread padding 0.
Contribution(p, view_length) ==
    CASE p.kind = "Fixed" -> p.value
      [] p.kind = "RatioOfViewSize" -> FMul(p.value, view_length)
      [] p.kind = "Spread" -> Zero

\* C21: the preferred size of a container is its subview's preferred size plus the resolved
\* Fixed and RatioOfViewSize paddings; a Spread edge adds nothing, so that a container with
\* four Spread edges prefers exactly its subview's preferred size.
C21_SpreadAddsNothingToPreferredSize ==
    IsContainer /\ measured # None
    => LET self == Unwrap(view)
       IN  Unwrap(measured)
           = RectSize(FAdd(FAdd(Contribution(self.padding_left, self.subview.width),
                                self.subview.width),
                           Contribution(self.padding_right, self.subview.width)),
                      FAdd(FAdd(Contribution(self.padding_top, self.subview.height),
                                self.subview.height),
                           Contribution(self.padding_bottom, self.subview.height)))

\* C22: after apply_bounds of a container, for every combination of edge paddings and every
\* bounds, bounds smaller than the fixed paddings included, the size handed to the subview
\* is non-negative on both axes and the subview's far edges do not exceed the container's:
\* subview.x_max <= bounds.x_max and subview.y_max <= bounds.y_max.
C22_SubviewEndsBeforeContainerEnds ==
    IsContainer /\ applied # None
    => LET bounds == Unwrap(applied).bounds
           subview_bounds == Unwrap(applied).subviews[1]
       IN  /\ FLe(Zero, subview_bounds.size.width)
           /\ FLe(Zero, subview_bounds.size.height)
           /\ FLe(FAdd(subview_bounds.origin.x, subview_bounds.size.width),
                  FAdd(bounds.origin.x, bounds.size.width))
           /\ FLe(FAdd(subview_bounds.origin.y, subview_bounds.size.height),
                  FAdd(bounds.origin.y, bounds.size.height))

\* A StackView or ZStackView was laid out with another number of subviews than it measured.
LaidOutMismatched ==
    /\ view # None
    /\ Unwrap(view).type \in {"StackView", "ZStackView"}
    /\ applied # None
    /\ Len(Unwrap(view).subviews) # Len(Unwrap(view).subview_sizes)

\* C23: if apply_bounds of a stack or z-stack visits more or fewer subviews than its most
\* recent preferred_size measured, a warning is logged, apply_bounds stops early, and the
\* subviews beyond the measured count get no apply_bounds call.
C23_MismatchedSubviewsWarn ==
    LaidOutMismatched
    => /\ Unwrap(applied).warned
       /\ Len(Unwrap(applied).subviews) <= Len(Unwrap(view).subview_sizes)

====
